---- MODULE Spec2Model ----
(***************************************************************************)
(* Verification model of the LinkedIn prospecting automation:              *)
(*   automation/enhanced_sheets.py  EnhancedSheetsClient                   *)
(*   automation/sheets.py           SheetsClient                           *)
(*   automation/linkedin.py         LinkedInAutomation                     *)
(*   automation/orchestrator.py     run                                    *)
(* Each subsystem has its own specification over the shared variables;     *)
(* the variables of the other subsystems stay at their initial values.     *)
(***************************************************************************)
EXTENDS Integers, Sequences, FiniteSets, TLC

VARIABLES
    \* ---- EnhancedSheetsClient (enhanced_sheets.py) ----
    esHeader,       \* worksheet row 1: sequence of column names
    esRows,         \* worksheet data rows (sheet row k+1 is esRows[k])
    esCalls,        \* history: one record per add_profile call
    \* ---- LinkedInAutomation.search_people (linkedin.py) ----
    sp_pc,              \* "head" | "round" | "containers" | "cards" | "done"
    site_empty,         \* the site shows no container and no profile link
    max_results,        \* argument of the call
    search_results,     \* list of SearchResult
    page_number,
    stagnant_rounds,
    processed_urls,
    page_round,
    results_before_round,
    scan_n,             \* elements of the current round's list consumed
    last_seen,          \* history: the element the loop handled last
    skipped_urls,       \* history: URLs first seen with a "message" button
    \* ---- LinkedInAutomation.connect_with_note (linkedin.py) ----
    cw_env,             \* what the page shows during the call
    cw_test_mode,       \* self.test_mode
    cw_out,             \* result of the call, or NoResult before it ran
    \* ---- LinkedInAutomation.__aenter__/__aexit__ (linkedin.py) ----
    ss_pc,              \* "new" | "body" | "exiting" | "released" | "enter_failed"
    ss_cfg,             \* constructor arguments that steer __aenter__
    browser,            \* self.browser: "none" | "obj"
    browserOpen,        \* a browser process launched by this session is alive
    engineRunning,      \* the Playwright driver started by this session is alive
    bodyRaised,         \* the body of the async-with raised
    exitRaised,         \* __aexit__ itself raised
    feed_reached,       \* login: "n/a" | "already" | "yes" | "timeout"
    storage_written,    \* login wrote the storage-state file
    \* ---- orchestrator.run (orchestrator.py) over SheetsClient ----
    o_pc,               \* position in run()
    settings,           \* the Settings object load_settings returned
    sheetEnv,           \* how the spreadsheet service answers
    sheets,             \* the local `sheets`: TRUE when a client was built
    header,             \* basic worksheet row 1
    rows,               \* basic worksheet data rows
    o_results,          \* search_results returned by li.search_people
    row_mapping,        \* profile URL -> row number
    o_idx,              \* index of the candidate being handled
    processed_count,
    o_cur,              \* locals of the current candidate (profile, note, ...)
    o_session,          \* "closed" | "open" | "released"
    o_trace,            \* history of externally visible steps of the run
    o_error,            \* "none" or the kind of exception that left run()
    \* ---- SheetsClient.update_row (sheets.py) ----
    bs_header,          \* worksheet row 1
    bs_rows,            \* worksheet data rows (sheet row k+1 is bs_rows[k])
    bs_last,            \* history: the last update_row call and the sheet before it
    \* ---- EnhancedSheetsClient.__init__ on an existing worksheet ----
    eh_pc,              \* "closed" | "open"
    eh_cols,            \* worksheet.col_count
    eh_before,          \* history: header, rows and col_count before the open
    \* ---- _col_num_to_letter of both clients ----
    cl_n,               \* the column number handed in
    cl_basic,           \* SheetsClient's letters, <<>> before the call
    cl_enhanced,        \* EnhancedSheetsClient's letters, <<>> before the call
    \* ---- compute_popularity_score (scoring.py) ----
    sc_profile,         \* the profile handed in
    sc_keywords,        \* the seniority keywords handed in
    sc_score,           \* the returned score in hundredths, NoScore before the call
    \* ---- the note generators of the two AI clients ----
    ai_text,            \* response.text, the model's output
    ai_inmail,          \* what generate_inmail_note returned, NoText before the call
    ai_note,            \* what craft_connect_note returned, NoText before the call
    \* ---- LinkedInAutomationIntegration (ui_integration.py) ----
    br_pc,              \* where run_automation is
    is_running,         \* self.is_running
    br_found,           \* len(search_results)
    br_max,             \* max_profiles
    br_idx,             \* candidates the for loop has passed
    br_processed,       \* processed_count of run_automation
    stop_called,        \* history: stop() has been called
    br_begun,           \* history: candidates begun, each with stop_called at the time
    \* ---- LinkedInAutomationUI (ui_app.py) ----
    ui_pc,              \* where the worker thread of each run is
    start_button,       \* state of the Start button; the Stop button has the other state
    root_handlers,      \* handlers attached to the root logger
    ui_emitted,         \* history: records the workers logged through the root logger
    automation_running, \* self.automation_running
    ui_runs,            \* runs started so far
    ui_left,            \* candidates the orchestrator of each run has still to process
    ui_completed,       \* history: candidates completed on the worker, in order
    log_queue,          \* self.log_queue
    profile_queue,      \* self.profile_queue
    profiles_data,      \* self.profiles_data, the rows of the Profiles table
    log_text,           \* the lines of the log view
    bi_pc,          \* bridge set-up: "new", "initialized", "init_failed", "opened", "error"
    bi_custom,      \* history: the custom_settings dictionary initialize was given
    bi_settings,    \* self.settings: attribute name -> value; empty before initialize
    bi_sheets,      \* which spreadsheet client initialize built: "none", "enhanced", "basic"
    bi_li_args      \* keyword arguments LinkedInAutomation was built with; empty if never built

esVars   == <<esHeader, esRows, esCalls>>
spVars   == <<sp_pc, site_empty, max_results, search_results, page_number,
              stagnant_rounds, processed_urls, page_round,
              results_before_round, scan_n, last_seen, skipped_urls>>
cwVars   == <<cw_env, cw_test_mode, cw_out>>
ssVars   == <<ss_pc, ss_cfg, browser, browserOpen, engineRunning, bodyRaised,
              exitRaised, feed_reached, storage_written>>
orchVars == <<o_pc, settings, sheetEnv, sheets, header, rows, o_results,
              row_mapping, o_idx, processed_count, o_cur, o_session, o_trace,
              o_error>>
bsVars   == <<bs_header, bs_rows, bs_last>>
ehVars   == <<eh_pc, eh_cols, eh_before>>
clVars   == <<cl_n, cl_basic, cl_enhanced>>
scVars   == <<sc_profile, sc_keywords, sc_score>>
aiVars   == <<ai_text, ai_inmail, ai_note>>
brVars   == <<br_pc, is_running, br_found, br_max, br_idx, br_processed, stop_called,
              br_begun>>
uiVars   == <<ui_pc, automation_running, ui_runs, ui_left, ui_completed, log_queue,
              profile_queue, profiles_data, log_text, start_button, root_handlers,
              ui_emitted>>
biVars   == <<bi_pc, bi_custom, bi_settings, bi_sheets, bi_li_args>>
vars     == <<esVars, spVars, cwVars, ssVars, orchVars,
              bsVars,
              ehVars,
              clVars,
              scVars,
              aiVars,
              brVars,
              uiVars,
              biVars>>

None == "None"

Range(s) == {s[i] : i \in DOMAIN s}

Min(a, b) == IF a <= b THEN a ELSE b

\* list.index(x)+1 : 1-based position of the first occurrence, 0 when absent
IndexOf(s, x) ==
    IF \E i \in DOMAIN s : s[i] = x
    THEN CHOOSE i \in DOMAIN s : s[i] = x /\ \A j \in 1..(i-1) : s[j] # x
    ELSE 0

(***************************************************************************)
(*                        EnhancedSheetsClient                             *)
(***************************************************************************)

\* EnhancedSheetsClient.COLUMNS
COLUMNS == <<
    "timestamp", "name", "headline", "location", "profile_url",
    "about", "ai_summary", "popularity_score",
    "current_position", "current_company", "total_experience_years",
    "top_skills", "all_skills_count", "achievements",
    "education", "certifications",
    "email", "website", "blogs", "github", "twitter",
    "followers_count", "connections_count", "mutual_connections",
    "recent_post_snippet", "interests",
    "inmail_note", "ice_breaker_1", "ice_breaker_2", "ice_breaker_3",
    "connect_sent", "connect_sent_date", "connection_accepted",
    "message_sent", "response_received", "notes" >>

\* bound: data rows the enhanced worksheet may hold in the model
MaxEsRows == 3

EsUrls  == {"u1", "u2"}
EsNames == {"First Version", "Updated Version"}

\* DetailedProfile objects handed to add_profile: the optional and list
\* fields are empty, name / headline / profile_url / inmail_note vary.
DetailedProfiles ==
    [name : EsNames, headline : {"CTO at X"}, profile_url : EsUrls,
     inmail_note : {"hi"}]

\* the timestamp datetime.now() renders; one abstract value
Now == "ts"

\* EnhancedSheetsClient._profile_to_row for a profile whose optional fields
\* (location, about, experiences, skills, ...) are empty
_profile_to_row(profile, ai_summary, popularity_score) ==
    [i \in 1..Len(COLUMNS) |->
        CASE COLUMNS[i] = "timestamp"         -> Now
          [] COLUMNS[i] = "name"              -> profile.name
          [] COLUMNS[i] = "headline"          -> profile.headline
          [] COLUMNS[i] = "profile_url"       -> profile.profile_url
          [] COLUMNS[i] = "ai_summary"        -> ai_summary
          [] COLUMNS[i] = "popularity_score"  -> popularity_score
          [] COLUMNS[i] = "all_skills_count"  -> "0"
          [] COLUMNS[i] = "followers_count"   -> "0"
          [] COLUMNS[i] = "connections_count" -> "0"
          [] COLUMNS[i] = "inmail_note"       -> profile.inmail_note
          [] OTHER                            -> ""]

\* 1-based sheet row numbers of the data rows that hold `url` in the
\* profile_url column
EsRowsWithUrl(rs, url) ==
    {k + 1 : k \in {j \in DOMAIN rs : rs[j][IndexOf(COLUMNS, "profile_url")] = url}}

\* EnhancedSheetsClient.add_profile: append the rendered row, return
\* len(get_all_values()) (header included)
add_profile(profile, ai_summary, popularity_score) ==
    /\ Len(esRows) < MaxEsRows
    /\ LET row_data == _profile_to_row(profile, ai_summary, popularity_score)
           rows2    == Append(esRows, row_data)
           ret      == 1 + Len(rows2)
       IN  /\ esRows' = rows2
           /\ esCalls' = Append(esCalls,
                  [url |-> profile.profile_url, ret |-> ret,
                   appended |-> Len(rows2) > Len(esRows),
                   existed |-> EsRowsWithUrl(esRows, profile.profile_url) # {}])
    /\ UNCHANGED esHeader

\* EnhancedSheetsClient.update_profile_status: header-resolved batched update
\* of one row; names missing from the header are skipped
update_profile_status(rs, hdr, row_num, status_updates) ==
    IF row_num - 1 \in DOMAIN rs
    THEN [rs EXCEPT ![row_num - 1] =
            [i \in DOMAIN rs[row_num - 1] |->
                IF i \in DOMAIN hdr /\ hdr[i] \in DOMAIN status_updates
                   /\ IndexOf(hdr, hdr[i]) = i
                THEN status_updates[hdr[i]]
                ELSE rs[row_num - 1][i]]]
    ELSE rs

\* EnhancedSheetsClient.mark_connect_sent
mark_connect_sent(row_num) ==
    /\ row_num - 1 \in DOMAIN esRows
    /\ esRows' = update_profile_status(esRows, esHeader, row_num,
                    [c \in {"connect_sent", "connect_sent_date"} |->
                        IF c = "connect_sent" THEN "Yes" ELSE Now])
    /\ UNCHANGED <<esHeader, esCalls>>

\* worksheet.get_all_records(): one header-keyed map per data row
get_all_records(hdr, rs) ==
    [k \in DOMAIN rs |-> [n \in Range(hdr) |-> rs[k][IndexOf(hdr, n)]]]

\* `not record.get("connect_sent")`: the key is missing or its value is empty
NotSent(record) ==
    IF "connect_sent" \in DOMAIN record THEN record["connect_sent"] = "" ELSE TRUE

\* the same query with enumerate(all_records, start=1)
get_profiles_pending_connection_Start1(hdr, rs) ==
    LET all_records == get_all_records(hdr, rs)
        numbered    == [k \in DOMAIN all_records |->
                           all_records[k] @@ ("row_number" :> k)]
    IN  SelectSeq(numbered, NotSent)

\* EnhancedSheetsClient.get_profiles_pending_connection:
\* enumerate(all_records, start=2), keep the records whose connect_sent is
\* falsy, each with record["row_number"] = i
get_profiles_pending_connection(hdr, rs) ==
    LET all_records == get_all_records(hdr, rs)
        numbered    == [k \in DOMAIN all_records |->
                           all_records[k] @@ ("row_number" :> (k + 1))]
    IN  SelectSeq(numbered, NotSent)

EsInit ==
    /\ esHeader = COLUMNS
    /\ esRows = <<>>
    /\ esCalls = <<>>

\* the calls leave the other objects alone
EsOthers == UNCHANGED <<spVars, cwVars, ssVars, orchVars, bsVars, ehVars, clVars, scVars,
                     aiVars, brVars, uiVars, biVars>>

EsNext ==
    \/ EsOthers /\ \E p \in DetailedProfiles : add_profile(p, "summary", "40.0")
    \/ EsOthers /\ \E r \in 2..(MaxEsRows + 1) : mark_connect_sent(r)

(***************************************************************************)
(*                  LinkedInAutomation.search_people                       *)
(***************************************************************************)

\* bound: largest max_results argument tried
MaxResultsArg == 2
\* bound: page numbers are counted exactly up to MaxPage; the value MaxPage
\* stands for "page MaxPage or any later page"
MaxPage == 2
\* bound: elements (containers or anchors) one scroll round may list
MaxScan == 1
\* `page_round < 10` : scroll rounds per page visit
MaxScrollRounds == 10
\* max_stagnant_rounds = 3
max_stagnant_rounds == 3

\* Strings are sequences of tokens; a token is a word or the blank " ".
\* the Python None where a string (a token sequence) is expected
NoText == <<"<None>">>

\* str.lower() on one token
LowerTok(t) ==
    CASE t = "Message" -> "message"
      [] t = "Connect" -> "connect"
      [] t = "Follow"  -> "follow"
      [] t = "Invite"  -> "invite"
      [] t = "Pending" -> "pending"
      [] OTHER         -> t

\* str.lower()
Lower(s) == [i \in DOMAIN s |-> LowerTok(s[i])]

\* str.strip(): drop leading and trailing blanks
Strip(s) ==
    LET nb == {i \in DOMAIN s : s[i] # " "}
    IN  IF nb = {} THEN <<>>
        ELSE LET lo == CHOOSE i \in nb : \A j \in nb : i <= j
                 hi == CHOOSE i \in nb : \A j \in nb : j <= i
             IN  SubSeq(s, lo, hi)

\* `word in text`
Contains(text, word) == word \in Range(text)

\* the href kept whole
SplitQuery_Keep(href) == href

\* href.split("?")[0] : the part before the first "?"
SplitQuery(href) ==
    LET qs == {i \in DOMAIN href : href[i] = "?"}
    IN  IF qs = {} THEN href
        ELSE SubSeq(href, 1, (CHOOSE i \in qs : \A j \in qs : i <= j) - 1)

\* href attribute values the page may carry
Hrefs == { <<"/in/", "a">>, <<"/in/", "a", "?", "trk">>,
           <<"/in/", "b", "?", "/in/">> }

\* text_content() / aria-label values of a status button
ButtonTexts == { NoText, <<>>, <<" ">>, <<" ", "Message", " ">>, <<"Connect">>,
                 <<"Follow">>, <<"Pending">>, <<"Message", "Connect">> }
AriaLabels  == { NoText, <<"Invite", "Bob", "to", "connect">>, <<"Message", "Bob">> }

\* a text that stays empty after strip() makes the code read the aria-label;
\* for every other text the label is never read
IsBlank(t) == t = NoText \/ Strip(t) = <<>>

\* Result containers: has_link is profile_link.count() > 0, has_button is
\* button.count() > 0
Containers ==
    {c \in [has_link : BOOLEAN, href : Hrefs \cup {NoText}, name_text : {NoText, <<" ", "Jane">>},
            has_button : BOOLEAN, text : ButtonTexts, aria : AriaLabels] :
        /\ (~c.has_link => c.href = NoText /\ ~c.has_button)
        /\ (c.href = NoText => ~c.has_button)
        /\ (c.name_text = NoText <=> ~c.has_button)
        /\ (~c.has_button => c.text = NoText /\ c.aria = NoText)
        /\ (~IsBlank(c.text) => c.aria = NoText)}

SearchResult(name, url, status) ==
    [name |-> name, headline |-> NoText, location |-> NoText,
     profile_url |-> url, connection_status |-> status]

\* the same classification without the "message" branch
ButtonStatus_NoMessageSkip(c) == IF c.has_button THEN "not_connected" ELSE "unknown"

\* lines 217-261: the status a container's button gives, "skip" for the
\* `continue` of the "message" branch
ButtonStatus(c) ==
    IF c.has_button
    THEN LET t0 == c.text
             t1 == IF IsBlank(t0) /\ c.aria # NoText /\ c.aria # <<>> THEN c.aria ELSE t0
         IN  IF t1 # NoText /\ t1 # <<>>
             THEN LET button_text == Lower(Strip(t1))
                  IN  IF Contains(button_text, "message") THEN "skip"
                      ELSE IF Contains(button_text, "connect")
                              \/ Contains(button_text, "follow")
                              \/ Contains(button_text, "invite")
                           THEN "not_connected"
                           ELSE "not_connected"
             ELSE "not_connected"
    ELSE "unknown"

\* lines 209-214
ContainerName(c) ==
    IF c.name_text # NoText /\ c.name_text # <<>> THEN Strip(c.name_text) ELSE <<>>

\* history only: the element the for loop has in hand, none outside the loop
NoSeen == [kind |-> "none", url |-> <<>>, fresh |-> FALSE]

\* history only: what the button of a container says, read off its text
\* (its aria-label when the text is blank)
SeenKind(c) ==
    LET t == IF IsBlank(c.text) THEN c.aria ELSE c.text
        w == IF t = NoText THEN {} ELSE Range(Lower(t))
    IN  IF ~c.has_button THEN "no_button"
        ELSE IF "message" \in w /\ w \cap {"connect", "follow", "invite"} # {} THEN "both"
        ELSE IF "message" \in w THEN "message"
        ELSE IF w \cap {"connect", "follow", "invite"} # {} THEN "connect"
        ELSE "other"

\* lines 190-276: one iteration of `for result_container in result_containers`
SpContainer(c) ==
    /\ sp_pc = "containers"
    /\ scan_n < MaxScan
    /\ ~site_empty
    /\ LET usable      == c.has_link /\ c.href # NoText /\ c.href # <<>>
                          /\ Contains(c.href, "/in/")
           profile_url == SplitQuery(c.href)
           fresh       == usable /\ profile_url \notin processed_urls
           status      == ButtonStatus(c)
           added       == fresh /\ status # "skip"
           results2    == IF added
                          THEN Append(search_results,
                                   SearchResult(ContainerName(c), profile_url, status))
                          ELSE search_results
       IN  /\ processed_urls' = IF fresh THEN processed_urls \cup {profile_url}
                                ELSE processed_urls
           /\ search_results' = results2
           /\ skipped_urls' = IF fresh /\ status = "skip"
                              THEN skipped_urls \cup {profile_url}
                              ELSE skipped_urls
           /\ last_seen' = IF usable
                            THEN [kind |-> SeenKind(c), url |-> profile_url,
                                  fresh |-> fresh]
                            ELSE [kind |-> "no_link", url |-> <<>>, fresh |-> FALSE]
           /\ IF Len(results2) >= max_results /\ added
              THEN sp_pc' = "round" /\ scan_n' = 0
              ELSE sp_pc' = sp_pc /\ scan_n' = scan_n + 1
    /\ UNCHANGED <<site_empty, max_results, page_number, stagnant_rounds,
                   page_round, results_before_round>>

\* lines 171-187: one iteration of `for card in cards` (raw-anchor fallback)
SpCard(href) ==
    /\ sp_pc = "cards"
    /\ scan_n < MaxScan
    /\ ~site_empty
    /\ LET usable      == href # NoText /\ href # <<>> /\ Contains(href, "/in/")
           profile_url == SplitQuery(href)
           fresh       == usable /\ profile_url \notin processed_urls
           results2    == IF fresh
                          THEN Append(search_results,
                                   SearchResult(<<>>, profile_url, "unknown"))
                          ELSE search_results
       IN  /\ processed_urls' = IF fresh THEN processed_urls \cup {profile_url}
                                ELSE processed_urls
           /\ search_results' = results2
           /\ last_seen' = IF usable
                            THEN [kind |-> "card", url |-> profile_url,
                                  fresh |-> fresh]
                            ELSE [kind |-> "no_link", url |-> <<>>, fresh |-> FALSE]
           /\ IF fresh /\ Len(results2) >= max_results
              THEN sp_pc' = "round" /\ scan_n' = 0
              ELSE sp_pc' = sp_pc /\ scan_n' = scan_n + 1
    /\ UNCHANGED <<site_empty, max_results, page_number, stagnant_rounds,
                   page_round, results_before_round, skipped_urls>>

\* lines 146-156: the outer loop test is true; load the page
SpVisitPage ==
    /\ sp_pc = "head"
    /\ Len(search_results) < max_results
    /\ sp_pc' = "round"
    /\ page_round' = 0
    /\ results_before_round' = Len(search_results)
    /\ UNCHANGED <<site_empty, max_results, search_results, page_number,
                   stagnant_rounds, processed_urls, scan_n, last_seen,
                   skipped_urls>>

\* lines 159-169: the inner loop test is true; list the containers, or the
\* anchors when there is no container
SpStartRound ==
    /\ sp_pc = "round"
    /\ Len(search_results) < max_results /\ page_round < MaxScrollRounds
    /\ page_round' = page_round + 1
    /\ scan_n' = 0
    /\ \E has_containers \in BOOLEAN :
          /\ site_empty => ~has_containers
          /\ sp_pc' = IF has_containers THEN "containers" ELSE "cards"
    /\ last_seen' = NoSeen
    /\ UNCHANGED <<site_empty, max_results, search_results, page_number,
                   stagnant_rounds, processed_urls, results_before_round,
                   skipped_urls>>

\* the for loop ran off the end of its list; lines 278-282: scroll and pause
SpEndScan ==
    /\ \/ sp_pc = "containers" /\ scan_n >= 1
       \/ sp_pc = "cards"
    /\ sp_pc' = "round"
    /\ scan_n' = 0
    /\ last_seen' = NoSeen
    /\ UNCHANGED <<site_empty, max_results, search_results, page_number,
                   stagnant_rounds, processed_urls, page_round,
                   results_before_round, skipped_urls>>

\* the page number left as it is
NextPage_Stay(n) == n

\* page_number += 1
NextPage(n) == IF n < MaxPage THEN n + 1 ELSE n

\* lines 284-308: the inner loop ended; stagnation bookkeeping
SpEndPage ==
    /\ sp_pc = "round"
    /\ ~(Len(search_results) < max_results /\ page_round < MaxScrollRounds)
    /\ LET results_after_round == Len(search_results)
           stagnant1 == IF results_after_round = results_before_round
                        THEN stagnant_rounds + 1 ELSE 0
       IN  IF stagnant1 >= max_stagnant_rounds
           THEN /\ page_number' = NextPage(page_number)
                /\ stagnant_rounds' = 0
           ELSE IF results_after_round = results_before_round
                THEN /\ page_number' = NextPage(page_number)
                     /\ stagnant_rounds' = stagnant1
                ELSE /\ page_number' = page_number
                     /\ stagnant_rounds' = stagnant1
    /\ sp_pc' = "head"
    /\ last_seen' = NoSeen
    /\ UNCHANGED <<site_empty, max_results, search_results, processed_urls,
                   page_round, results_before_round, scan_n, skipped_urls>>

\* lines 310-312: the outer loop test is false; return search_results[:max_results]
SpReturn ==
    /\ sp_pc = "head"
    /\ ~(Len(search_results) < max_results)
    /\ sp_pc' = "done"
    /\ search_results' = SubSeq(search_results, 1, Min(Len(search_results), max_results))
    /\ UNCHANGED <<site_empty, max_results, page_number, stagnant_rounds,
                   processed_urls, page_round, results_before_round, scan_n,
                   last_seen, skipped_urls>>

\* lines 140-144
SpInit ==
    /\ sp_pc = "head"
    /\ site_empty \in BOOLEAN
    /\ max_results \in 1..MaxResultsArg
    /\ search_results = <<>>
    /\ page_number = 1
    /\ stagnant_rounds = 0
    /\ processed_urls = {}
    /\ page_round = 0
    /\ results_before_round = 0
    /\ scan_n = 0
    /\ last_seen = NoSeen
    /\ skipped_urls = {}

\* the call leaves the other objects alone
SpOthers == UNCHANGED <<esVars, cwVars, ssVars, orchVars, bsVars, ehVars, clVars, scVars,
                     aiVars, brVars, uiVars, biVars>>

SpNext ==
    \/ SpOthers /\ SpVisitPage
    \/ SpOthers /\ SpStartRound
    \/ SpOthers /\ sp_pc = "containers" /\ \E c \in Containers : SpContainer(c)
    \/ SpOthers /\ sp_pc = "cards" /\ \E h \in Hrefs \cup {NoText} : SpCard(h)
    \/ SpOthers /\ SpEndScan
    \/ SpOthers /\ SpEndPage
    \/ SpOthers /\ SpReturn

(***************************************************************************)
(*                LinkedInAutomation.connect_with_note                     *)
(***************************************************************************)

\* Controls a click may fail on; a failing click ends the call (or, for
\* Cancel, is its last click), so at most one failure matters per call.
ClickFailures == {"none", "more", "connect", "add_note", "send_without_note",
                  "cancel", "send"}

\* What the profile page shows during one call: which lookups find a
\* control, whether page.goto / textarea.fill succeed, which click raises.
ConnectEnvs ==
    [goto_ok : BOOLEAN, direct : BOOLEAN, more : BOOLEAN, dropdown : BOOLEAN,
     add_note : BOOLEAN, send_without_note : BOOLEAN, textarea : BOOLEAN,
     fill_ok : BOOLEAN, cancel : BOOLEAN, send : BOOLEAN,
     click_fails : ClickFailures]

CwResult(ret, clicks) == [ret |-> ret, clicks |-> clicks]

\* lines 705-756: the part after the note was typed
CwSubmit(env, test_mode, clicks) ==
    IF test_mode
    THEN IF env.cancel /\ env.click_fails # "cancel"
         THEN CwResult("True", Append(clicks, "cancel"))
         ELSE CwResult("True", Append(clicks, "escape"))
    ELSE IF env.send
         THEN IF env.click_fails = "send"
              THEN CwResult("False", clicks)
              ELSE CwResult("True", Append(clicks, "send"))
         ELSE CwResult("False", clicks)

\* lines 595-701: the invitation dialog
CwDialog(env, test_mode, clicks) ==
    IF ~env.add_note
    THEN IF env.send_without_note
         THEN IF env.click_fails = "send_without_note"
              THEN CwResult("False", clicks)
              ELSE CwResult("True", Append(clicks, "send_without_note"))
         ELSE CwResult("False", clicks)
    ELSE IF env.click_fails = "add_note"
         THEN CwResult("False", clicks)
         ELSE IF env.textarea
              THEN IF env.fill_ok
                   THEN CwSubmit(env, test_mode, Append(clicks, "add_note"))
                   ELSE CwResult("False", Append(clicks, "add_note"))
              ELSE CwResult("False", Append(clicks, "add_note"))

\* lines 580-593: click the Connect control that was found
CwClickConnect(env, test_mode, clicks) ==
    IF env.click_fails = "connect"
    THEN CwResult("False", clicks)
    ELSE CwDialog(env, test_mode, Append(clicks, "connect"))

\* LinkedInAutomation.connect_with_note, lines 470-756. ret is "True",
\* "False" or "raise" (an exception leaves the call); clicks lists the
\* controls clicked, in order.
connect_with_note(env, test_mode) ==
    IF ~env.goto_ok THEN CwResult("raise", <<>>)
    ELSE IF env.direct THEN CwClickConnect(env, test_mode, <<>>)
    ELSE IF env.more
         THEN IF env.click_fails = "more"
              THEN CwResult("raise", <<>>)
              ELSE IF env.dropdown
                   THEN CwClickConnect(env, test_mode, <<"more">>)
                   ELSE CwResult("False", <<"more">>)
         ELSE CwResult("False", <<>>)

\* a connection request was submitted
Submitted(out) ==
    "send" \in Range(out.clicks) \/ "send_without_note" \in Range(out.clicks)

NoResult == [ret |-> "pending", clicks |-> <<>>]

CwInit ==
    /\ cw_env \in ConnectEnvs
    /\ cw_test_mode \in BOOLEAN
    /\ cw_out = NoResult

\* one call of connect_with_note
CwCall ==
    /\ cw_out = NoResult
    /\ cw_out' = connect_with_note(cw_env, cw_test_mode)
    /\ UNCHANGED <<cw_env, cw_test_mode>>

\* the call leaves the other objects alone
CwOthers == UNCHANGED <<esVars, spVars, ssVars, orchVars, bsVars, ehVars, clVars, scVars,
                     aiVars, brVars, uiVars, biVars>>

CwNext == CwOthers /\ CwCall

(***************************************************************************)
(*        LinkedInAutomation.__aenter__ / __aexit__ / login                *)
(***************************************************************************)

\* Constructor arguments that steer the session, and whether the installed
\* Playwright hands out a Browser object for a persistent context
\* (context.browser is None there in some releases).
SessionCfgs ==
    [use_persistent_context : BOOLEAN, user_data_dir : BOOLEAN,
     storage_state_path : BOOLEAN, persistent_has_browser : BOOLEAN]

SsInit ==
    /\ ss_pc = "new"
    /\ ss_cfg \in SessionCfgs
    /\ browser = "none"
    /\ browserOpen = FALSE
    /\ engineRunning = FALSE
    /\ bodyRaised = FALSE
    /\ exitRaised = FALSE
    /\ feed_reached = "n/a"
    /\ storage_written = FALSE

\* __aenter__, lines 54-82. `fail` names the await that raises, if any.
SsEnter(fail) ==
    /\ ss_pc = "new"
    /\ LET persistent == ss_cfg.use_persistent_context /\ ss_cfg.user_data_dir
       IN  CASE fail = "start" ->
                  /\ ss_pc' = "enter_failed"
                  /\ UNCHANGED <<browser, browserOpen, engineRunning>>
             [] fail = "launch" ->
                  /\ ss_pc' = "enter_failed"
                  /\ engineRunning' = TRUE
                  /\ UNCHANGED <<browser, browserOpen>>
             [] fail = "new_page" ->
                  /\ ss_pc' = "enter_failed"
                  /\ engineRunning' = TRUE
                  /\ browserOpen' = TRUE
                  /\ browser' = IF persistent /\ ~ss_cfg.persistent_has_browser
                                THEN "none" ELSE "obj"
             [] OTHER ->
                  /\ ss_pc' = "login"
                  /\ engineRunning' = TRUE
                  /\ browserOpen' = TRUE
                  /\ browser' = IF persistent /\ ~ss_cfg.persistent_has_browser
                                THEN "none" ELSE "obj"
    /\ UNCHANGED <<ss_cfg, bodyRaised, exitRaised, feed_reached, storage_written>>

\* login, lines 89-121. `outcome`: "already" (the feed loads without a
\* redirect), "yes" (credentials submitted, feed reached), "timeout"
\* (credentials submitted, wait_for_url timed out), "raise" (a goto / fill /
\* click raised).
SsLogin(outcome) ==
    /\ ss_pc = "login"
    /\ IF outcome = "raise"
       THEN /\ bodyRaised' = TRUE
            /\ ss_pc' = "exiting"
            /\ UNCHANGED <<feed_reached, storage_written>>
       ELSE /\ feed_reached' = outcome
            /\ storage_written' =
                 IF outcome \in {"yes", "timeout"}
                    /\ ss_cfg.storage_state_path /\ ~ss_cfg.use_persistent_context
                 THEN TRUE ELSE storage_written
            /\ ss_pc' = "body"
            /\ UNCHANGED bodyRaised
    /\ UNCHANGED <<ss_cfg, browser, browserOpen, engineRunning, exitRaised>>

\* the rest of the async-with body ends, normally or by an exception
SsBodyEnd(raised) ==
    /\ ss_pc = "body"
    /\ bodyRaised' = raised
    /\ ss_pc' = "exiting"
    /\ UNCHANGED <<ss_cfg, browser, browserOpen, engineRunning, exitRaised,
                   feed_reached, storage_written>>

\* __aexit__, lines 84-87. close_ok: browser.close() returns without
\* raising. playwright.stop() ends the driver and with it the browser
\* processes the driver launched.
SsExit(close_ok) ==
    /\ ss_pc = "exiting"
    /\ ss_pc' = "released"
    /\ IF browser # "none" /\ ~close_ok
       THEN /\ exitRaised' = TRUE
            /\ UNCHANGED <<browserOpen, engineRunning>>
       ELSE /\ browserOpen' = FALSE
            /\ engineRunning' = FALSE
            /\ UNCHANGED exitRaised
    /\ UNCHANGED <<ss_cfg, browser, bodyRaised, feed_reached, storage_written>>

\* the session leaves the other objects alone
SsOthers == UNCHANGED <<esVars, spVars, cwVars, orchVars, bsVars, ehVars, clVars, scVars,
                     aiVars, brVars, uiVars, biVars>>

SsNext ==
    \/ SsOthers /\ \E fail \in {"none", "start", "launch", "new_page"} : SsEnter(fail)
    \/ SsOthers /\ \E outcome \in {"already", "yes", "timeout", "raise"} : SsLogin(outcome)
    \/ SsOthers /\ \E raised \in BOOLEAN : SsBodyEnd(raised)
    \/ SsOthers /\ \E close_ok \in BOOLEAN : SsExit(close_ok)

(***************************************************************************)
(*                SheetsClient and orchestrator.run                        *)
(***************************************************************************)

\* bound: candidates one search may return in the model
MaxCands == 2
\* bound: largest MAX_PROFILES tried
MaxProfilesArg == 2

\* width of the row orchestrator.run appends (initial_row_data)
RowWidth == 16

\* header SheetsClient.__init__ writes into a worksheet it creates
CreatedHeader ==
    <<"name", "headline", "location", "profile_url", "popularity_score",
      "summary", "note", "connect_sent", "connection_accepted">>

\* header of a worksheet that exists before the run (the 16-column layout
\* the row of orchestrator.run is written for)
TitleHeader ==
    <<"Name", "Position", "Headline", "Location", "Profile URL",
      "Popularity Score", "Summary", "Connection Note", "Connect Sent",
      "Connection Status", "Date Added", "Last Updated", "About",
      "Experience", "Education", "Skills">>

OrchUrls == {"u1", "u2"}

\* what scrape_profile returns for a URL
ScrapedProfile(url) ==
    [name |-> IF url = "u1" THEN "Scraped One" ELSE "Scraped Two",
     headline |-> "CTO at X", location |-> "", profile_url |-> url,
     about |-> ""]

\* position pre-parsed out of a headline: split on " at ", then " | ",
\* then the first comma segment
PositionOf(headline) ==
    CASE headline = "CTO at X" -> "CTO"
      [] headline = "Dev | Y"  -> "Dev"
      [] headline = "A, B"     -> "A"
      [] OTHER                 -> ""

\* SearchResult objects run() may be handed; connection_status ranges over
\* the three values the dataclass documents
OrchCandidates ==
    [name : {"", "Jane"}, headline : {None}, location : {None},
     profile_url : OrchUrls,
     connection_status : {"not_connected", "unknown", "connected"}]

DistinctUrls(rs) ==
    \A i \in DOMAIN rs, j \in DOMAIN rs : i # j => rs[i].profile_url # rs[j].profile_url

\* result lists: at most MaxCands candidates, pairwise distinct URLs (the
\* seen-set of search_people)
OrchResultLists ==
    {s \in UNION {[1..n -> OrchCandidates] : n \in 0..MaxCands} : DistinctUrls(s)}

\* a data row a previous run left for u1 in a worksheet with TitleHeader
PriorRow(sent) ==
    [i \in 1..RowWidth |->
        CASE TitleHeader[i] = "Name"              -> "Old Name"
          [] TitleHeader[i] = "Profile URL"       -> "u1"
          [] TitleHeader[i] = "Popularity Score"  -> "pop"
          [] TitleHeader[i] = "Connect Sent"      -> sent
          [] TitleHeader[i] = "Connection Status" -> "not_connected"
          [] TitleHeader[i] = "Date Added"        -> Now
          [] TitleHeader[i] = "Last Updated"      -> Now
          [] OTHER                                -> ""]

\* SheetsClient.append_lead: the sheet after the append
append_lead(rs, row) == Append(rs, row)

\* SheetsClient.append_lead: its return value, len(get_all_values())
append_lead_ret(rs, row) == 1 + Len(append_lead(rs, row))

\* the characters chr(65) .. chr(90)
Alphabet ==
    << "A", "B", "C", "D", "E", "F", "G", "H", "I", "J", "K", "L", "M",
       "N", "O", "P", "Q", "R", "S", "T", "U", "V", "W", "X", "Y", "Z" >>

chr(code) == Alphabet[code - 64]

\* ord(ch), for a capital letter
ord(ch) == 64 + CHOOSE k \in DOMAIN Alphabet : Alphabet[k] = ch

\* the loop without its decrement
RECURSIVE LetterLoop_NoDecrement(_, _)
LetterLoop_NoDecrement(col_num, result) ==
    IF col_num > 0
    THEN LetterLoop_NoDecrement(col_num \div 26, <<chr(65 + (col_num % 26))>> \o result)
    ELSE result

\* SheetsClient._col_num_to_letter, lines 135-138: the while loop
RECURSIVE LetterLoop(_, _)
LetterLoop(col_num, result) ==
    IF col_num > 0
    THEN LET c == col_num - 1
         IN  LetterLoop(c \div 26, <<chr(65 + (c % 26))>> \o result)
    ELSE result

_col_num_to_letter_NoDecrement(col_num) == LetterLoop_NoDecrement(col_num, <<>>)

\* SheetsClient._col_num_to_letter: column number (1-based) to letters
_col_num_to_letter(col_num) == LetterLoop(col_num, <<>>)

\* EnhancedSheetsClient._col_num_to_letter, lines 357-360: the while loop
RECURSIVE EnhancedLetterLoop(_, _)
EnhancedLetterLoop(col_num, result) ==
    IF col_num > 0
    THEN LET c == col_num - 1
         IN  EnhancedLetterLoop(c \div 26, <<chr(65 + (c % 26))>> \o result)
    ELSE result

\* EnhancedSheetsClient._col_num_to_letter
Enhanced_col_num_to_letter(col_num) == EnhancedLetterLoop(col_num, <<>>)

\* the same list with 0-based column numbers
UpdateBatch_ZeroBased(hdr, row_num, column_updates) ==
    {[cell |-> <<_col_num_to_letter(IndexOf(hdr, n) - 1), row_num>>,
      value |-> column_updates[n]] :
        n \in DOMAIN column_updates \cap Range(hdr)}

\* SheetsClient.update_row, lines 110-121: the `updates` list, one entry per
\* supplied name that is in the header; its cell address is the letters of
\* the first header column of that name followed by the row number
UpdateBatch(hdr, row_num, column_updates) ==
    {[cell |-> <<_col_num_to_letter(IndexOf(hdr, n)), row_num>>,
      value |-> column_updates[n]] :
        n \in DOMAIN column_updates \cap Range(hdr)}

\* worksheet.batch_update: each entry sets the cell its address names;
\* data row k is sheet row k + 1
batch_update(rs, batch) ==
    [k \in DOMAIN rs |->
        [i \in DOMAIN rs[k] |->
            LET addr == <<_col_num_to_letter(i), k + 1>>
            IN  IF \E u \in batch : u.cell = addr
                THEN (CHOOSE u \in batch : u.cell = addr).value
                ELSE rs[k][i]]]

\* SheetsClient.update_row: header-resolved batched update of one row;
\* names that are not in the header are skipped, and without any entry no
\* update is issued
update_row(rs, hdr, row_num, column_updates) ==
    IF UpdateBatch(hdr, row_num, column_updates) # {}
    THEN batch_update(rs, UpdateBatch(hdr, row_num, column_updates))
    ELSE rs

\* SheetsClient.update_cell
update_cell(rs, hdr, row_num, col_name, value) ==
    update_row(rs, hdr, row_num, [c \in {col_name} |-> value])

\* SheetsClient.find_row_by_url: 1-based row number of the first row whose
\* "Profile URL" cell equals url (header is row 1), 0 for None
find_row_by_url(rs, hdr, url) ==
    LET col  == IndexOf(hdr, "Profile URL")
        hits == IF col = 0 THEN {}
                ELSE {k \in DOMAIN rs : col \in DOMAIN rs[k] /\ rs[k][col] = url}
    IN  IF hits = {} THEN 0
        ELSE 1 + (CHOOSE k \in hits : \A m \in hits : k <= m)

Ev(name, row) == [ev |-> name, row |-> row]

NoCur == [profile |-> ScrapedProfile("u1"), note |-> "", connect |-> NoResult,
          active |-> FALSE]

\* The Settings object: which required values are present, whether a sheet
\* is configured, MAX_PROFILES
SettingsSet ==
    [linkedin_email : BOOLEAN, linkedin_password : BOOLEAN,
     search_keywords : BOOLEAN, google_api_key : BOOLEAN,
     gsheet : BOOLEAN, max_profiles : 1..MaxProfilesArg]

\* The spreadsheet service: whether building the client fails, whether the
\* worksheet exists, and the row an earlier run left in it
SheetEnvs ==
    {e \in [init_fails : BOOLEAN, worksheet : {"absent", "exists"},
            prior : {"none", "no", "yes"}] :
        e.worksheet = "absent" => e.prior = "none"}

OrchInit ==
    /\ o_pc = "start"
    /\ settings \in SettingsSet
    /\ sheetEnv \in SheetEnvs
    /\ sheets = FALSE
    /\ header = IF sheetEnv.worksheet = "exists" THEN TitleHeader ELSE <<>>
    /\ rows = IF sheetEnv.prior = "none" THEN <<>> ELSE <<PriorRow(sheetEnv.prior)>>
    /\ o_results = <<>>
    /\ row_mapping = [u \in OrchUrls |-> 0]
    /\ o_idx = 0
    /\ processed_count = 0
    /\ o_cur = NoCur
    /\ o_session = "closed"
    /\ o_trace = <<>>
    /\ o_error = "none"

OrchFrame == <<settings, sheetEnv>>

\* the same step without the SEARCH_KEYWORDS test
OrchCheckConfig_NoKeywordCheck ==
    /\ o_pc = "start"
    /\ IF ~settings.linkedin_email \/ ~settings.linkedin_password
       THEN o_pc' = "raised" /\ o_error' = "config"
       ELSE o_pc' = "sheets_init" /\ o_error' = o_error
    /\ UNCHANGED <<OrchFrame, sheets, header, rows, o_results, row_mapping,
                   o_idx, processed_count, o_cur, o_session, o_trace>>

\* lines 26-34: load settings, then fail fast on missing credentials / keywords
OrchCheckConfig ==
    /\ o_pc = "start"
    /\ IF ~settings.linkedin_email \/ ~settings.linkedin_password
       THEN o_pc' = "raised" /\ o_error' = "config"
       ELSE IF ~settings.search_keywords
            THEN o_pc' = "raised" /\ o_error' = "config"
            ELSE o_pc' = "sheets_init" /\ o_error' = o_error
    /\ UNCHANGED <<OrchFrame, sheets, header, rows, o_results, row_mapping,
                   o_idx, processed_count, o_cur, o_session, o_trace>>

\* lines 36-57: build the SheetsClient when a sheet is configured; a failure
\* is logged and leaves sheets = None
OrchInitSheets ==
    /\ o_pc = "sheets_init"
    /\ IF settings.gsheet
       THEN /\ o_trace' = Append(o_trace, Ev("sheets_init", 0))
            /\ IF sheetEnv.init_fails
               THEN sheets' = FALSE /\ UNCHANGED header
               ELSE /\ sheets' = TRUE
                    /\ header' = IF sheetEnv.worksheet = "absent"
                                 THEN CreatedHeader ELSE header
       ELSE UNCHANGED <<sheets, header, o_trace>>
    /\ o_pc' = "gemini"
    /\ UNCHANGED <<OrchFrame, rows, o_results, row_mapping, o_idx,
                   processed_count, o_cur, o_session, o_error>>

\* line 59: GeminiClient(...) raises ValueError without an API key
OrchInitGemini ==
    /\ o_pc = "gemini"
    /\ o_trace' = Append(o_trace, Ev("gemini_init", 0))
    /\ IF settings.google_api_key
       THEN o_pc' = "enter" /\ UNCHANGED o_error
       ELSE o_pc' = "raised" /\ o_error' = "gemini"
    /\ UNCHANGED <<OrchFrame, sheets, header, rows, o_results, row_mapping,
                   o_idx, processed_count, o_cur, o_session>>

\* lines 61-74: async with LinkedInAutomation(...) as li
OrchEnter(ok) ==
    /\ o_pc = "enter"
    /\ o_trace' = Append(o_trace, Ev("browser_launch", 0))
    /\ IF ok
       THEN o_pc' = "login" /\ o_session' = "open" /\ UNCHANGED o_error
       ELSE o_pc' = "raised" /\ o_error' = "enter" /\ UNCHANGED o_session
    /\ UNCHANGED <<OrchFrame, sheets, header, rows, o_results, row_mapping,
                   o_idx, processed_count, o_cur>>

\* line 76: await li.login()
OrchLogin(ok) ==
    /\ o_pc = "login"
    /\ o_trace' = Append(o_trace, Ev("login", 0))
    /\ IF ok
       THEN o_pc' = "search" /\ UNCHANGED o_error
       ELSE o_pc' = "exit" /\ o_error' = "login"
    /\ UNCHANGED <<OrchFrame, sheets, header, rows, o_results, row_mapping,
                   o_idx, processed_count, o_cur, o_session>>

\* lines 78-83: await li.search_people(..., max_results=settings.max_profiles)
OrchSearch(res, ok) ==
    /\ o_pc = "search"
    /\ Len(res) <= settings.max_profiles
    /\ o_trace' = Append(o_trace, Ev("search", 0))
    /\ IF ok
       THEN /\ o_results' = res
            /\ o_pc' = "pass1"
            /\ o_idx' = 1
            /\ UNCHANGED o_error
       ELSE /\ o_pc' = "exit"
            /\ o_error' = "search"
            /\ UNCHANGED <<o_results, o_idx>>
    /\ UNCHANGED <<OrchFrame, sheets, header, rows, row_mapping,
                   processed_count, o_cur, o_session>>

\* initial_row_data, lines 106-123
initial_row_data(result) ==
    [i \in 1..RowWidth |->
        CASE i = 1  -> IF result.name # "" THEN result.name ELSE "Unknown"
          [] i = 2  -> IF result.headline # None THEN PositionOf(result.headline) ELSE ""
          [] i = 3  -> IF result.headline # None THEN result.headline ELSE ""
          [] i = 4  -> IF result.location # None THEN result.location ELSE ""
          [] i = 5  -> result.profile_url
          [] i = 6  -> "0"
          [] i = 9  -> "no"
          [] i = 10 -> result.connection_status
          [] i = 11 -> Now
          [] i = 12 -> Now
          [] OTHER  -> ""]

\* the same iteration without the lookup: every result is appended
OrchSaveResult_AlwaysAppend ==
    /\ o_pc = "pass1"
    /\ sheets
    /\ o_idx \in DOMAIN o_results
    /\ LET result == o_results[o_idx]
       IN  /\ rows' = append_lead(rows, initial_row_data(result))
           /\ row_mapping' = [row_mapping EXCEPT ![result.profile_url] =
                                 append_lead_ret(rows, initial_row_data(result))]
           /\ o_trace' = Append(o_trace,
                  Ev("append", append_lead_ret(rows, initial_row_data(result))))
    /\ o_idx' = o_idx + 1
    /\ UNCHANGED <<OrchFrame, o_pc, sheets, header, o_results, processed_count,
                   o_cur, o_session, o_error>>

\* lines 85-129: one iteration of the first pass
OrchSaveResult ==
    /\ o_pc = "pass1"
    /\ sheets
    /\ o_idx \in DOMAIN o_results
    /\ LET result       == o_results[o_idx]
           existing_row == find_row_by_url(rows, header, result.profile_url)
       IN  IF existing_row # 0
           THEN /\ row_mapping' = [row_mapping EXCEPT ![result.profile_url] = existing_row]
                /\ rows' = update_cell(rows, header, existing_row, "Last Updated", Now)
                /\ o_trace' = Append(o_trace, Ev("touch", existing_row))
           ELSE /\ rows' = append_lead(rows, initial_row_data(result))
                /\ row_mapping' = [row_mapping EXCEPT ![result.profile_url] =
                                      append_lead_ret(rows, initial_row_data(result))]
                /\ o_trace' = Append(o_trace,
                       Ev("append", append_lead_ret(rows, initial_row_data(result))))
    /\ o_idx' = o_idx + 1
    /\ UNCHANGED <<OrchFrame, o_pc, sheets, header, o_results, processed_count,
                   o_cur, o_session, o_error>>

\* lines 83, 130-136: the first pass is over (or skipped without a sheet);
\* enter `for result in search_results`
OrchPass1Done ==
    /\ o_pc = "pass1"
    /\ ~sheets \/ o_idx > Len(o_results)
    /\ o_pc' = "scrape"
    /\ o_idx' = 1
    /\ UNCHANGED <<OrchFrame, sheets, header, rows, o_results, row_mapping,
                   processed_count, o_cur, o_session, o_trace, o_error>>

\* row_num = row_mapping.get(url) if sheets else None   (0 for None)
RowNum(url) == IF sheets THEN row_mapping[url] ELSE 0

\* lines 136-144: await li.scrape_profile(url); an exception leaves the loop
OrchScrape(ok) ==
    /\ o_pc = "scrape"
    /\ o_idx \in DOMAIN o_results
    /\ o_trace' = Append(o_trace, Ev("scrape", o_idx))
    /\ IF ok
       THEN /\ o_cur' = [profile |-> ScrapedProfile(o_results[o_idx].profile_url),
                         note |-> "", connect |-> NoResult, active |-> TRUE]
            /\ o_pc' = "identity"
            /\ UNCHANGED o_error
       ELSE /\ o_pc' = "exit"
            /\ o_error' = "scrape"
            /\ UNCHANGED o_cur
    /\ UNCHANGED <<OrchFrame, sheets, header, rows, o_results, row_mapping,
                   o_idx, processed_count, o_session>>

\* the `updates` dictionary of lines 163-174
ProfileUpdates(profile) ==
    [c \in {"Name", "Position", "Headline", "Location", "Popularity Score",
            "About", "Experience", "Education", "Skills", "Last Updated"} |->
        CASE c = "Name"             -> profile.name
          [] c = "Position"         -> PositionOf(profile.headline)
          [] c = "Headline"         -> profile.headline
          [] c = "Location"         -> profile.location
          [] c = "Popularity Score" -> "pop"
          [] c = "About"            -> profile.about
          [] c = "Last Updated"     -> Now
          [] OTHER                  -> ""]

\* the same step with the update_row call left out
OrchUpdateProfile_NoWrite ==
    /\ o_pc = "identity"
    /\ o_pc' = "summary"
    /\ UNCHANGED <<OrchFrame, sheets, header, rows, o_results, row_mapping,
                   o_idx, processed_count, o_cur, o_session, o_trace, o_error>>

\* lines 146-179: write the scraped fields into the candidate's row
OrchUpdateProfile ==
    /\ o_pc = "identity"
    /\ LET row_num == RowNum(o_results[o_idx].profile_url)
       IN  IF sheets /\ row_num # 0
           THEN /\ rows' = update_row(rows, header, row_num, ProfileUpdates(o_cur.profile))
                /\ o_trace' = Append(o_trace, Ev("identity", row_num))
           ELSE UNCHANGED <<rows, o_trace>>
    /\ o_pc' = "summary"
    /\ UNCHANGED <<OrchFrame, sheets, header, o_results, row_mapping, o_idx,
                   processed_count, o_cur, o_session, o_error>>

\* lines 181-185: await gemini.summarize_profile, then write "Summary"
OrchSummary(ok) ==
    /\ o_pc = "summary"
    /\ IF ok
       THEN /\ LET row_num == RowNum(o_results[o_idx].profile_url)
               IN  IF sheets /\ row_num # 0
                   THEN /\ rows' = update_cell(rows, header, row_num, "Summary", "summary")
                        /\ o_trace' = Append(o_trace, Ev("summary", row_num))
                   ELSE UNCHANGED <<rows, o_trace>>
            /\ o_pc' = "note"
            /\ UNCHANGED o_error
       ELSE /\ o_pc' = "exit"
            /\ o_error' = "summary"
            /\ UNCHANGED <<rows, o_trace>>
    /\ UNCHANGED <<OrchFrame, sheets, header, o_results, row_mapping, o_idx,
                   processed_count, o_cur, o_session>>

\* lines 187-191: await gemini.craft_connect_note, then write "Connection Note"
OrchNote(ok) ==
    /\ o_pc = "note"
    /\ IF ok
       THEN /\ LET row_num == RowNum(o_results[o_idx].profile_url)
               IN  IF sheets /\ row_num # 0
                   THEN /\ rows' = update_cell(rows, header, row_num, "Connection Note", "note")
                        /\ o_trace' = Append(o_trace, Ev("note", row_num))
                   ELSE UNCHANGED <<rows, o_trace>>
            /\ o_cur' = [o_cur EXCEPT !.note = "note"]
            /\ o_pc' = "connect"
            /\ UNCHANGED o_error
       ELSE /\ o_pc' = "exit"
            /\ o_error' = "note"
            /\ UNCHANGED <<rows, o_trace, o_cur>>
    /\ UNCHANGED <<OrchFrame, sheets, header, o_results, row_mapping, o_idx,
                   processed_count, o_session>>

\* run() builds LinkedInAutomation without test_mode: the constructor
\* default applies
OrchTestMode == TRUE

\* what one connect_with_note call of the run can produce
ConnectOutcomes == {connect_with_note(e, OrchTestMode) : e \in ConnectEnvs}

\* the same step with the loop variable left where it is
OrchConnect_NoAdvance(out) ==
    /\ o_pc = "connect"
    /\ LET result  == o_results[o_idx]
           row_num == RowNum(result.profile_url)
       IN  IF result.connection_status # "connected"
           THEN LET connect_sent == (out.ret = "True")
                IN  /\ out \in ConnectOutcomes
                    /\ o_cur' = [o_cur EXCEPT !.connect = out]
                    /\ IF sheets /\ row_num # 0
                       THEN /\ rows' = update_cell(rows, header, row_num, "Connect Sent",
                                          IF connect_sent THEN "yes" ELSE "no")
                            /\ o_trace' = o_trace \o
                                 <<Ev("connect", o_idx), Ev("status", row_num)>>
                       ELSE /\ UNCHANGED rows
                            /\ o_trace' = Append(o_trace, Ev("connect", o_idx))
           ELSE /\ out = NoResult
                /\ o_cur' = [o_cur EXCEPT !.connect = NoResult]
                /\ IF sheets /\ row_num # 0
                   THEN /\ rows' = update_cell(
                                     update_cell(rows, header, row_num, "Connect Sent", "yes"),
                                     header, row_num, "Connection Status", "connected")
                        /\ o_trace' = Append(o_trace, Ev("status", row_num))
                   ELSE UNCHANGED <<rows, o_trace>>
    /\ processed_count' = processed_count + 1
    /\ IF processed_count + 1 >= settings.max_profiles
       THEN o_pc' = "exit" /\ UNCHANGED o_idx
       ELSE o_pc' = "scrape" /\ UNCHANGED o_idx
    /\ UNCHANGED <<OrchFrame, sheets, header, o_results, row_mapping,
                   o_session, o_error>>

\* lines 193-223: the connect attempt (skipped for a "connected" candidate),
\* the "Connect Sent" write, processed_count and the MAX_PROFILES test
OrchConnect(out) ==
    /\ o_pc = "connect"
    /\ LET result  == o_results[o_idx]
           row_num == RowNum(result.profile_url)
       IN  IF result.connection_status # "connected"
           THEN LET connect_sent == (out.ret = "True")
                IN  /\ out \in ConnectOutcomes
                    /\ o_cur' = [o_cur EXCEPT !.connect = out]
                    /\ IF sheets /\ row_num # 0
                       THEN /\ rows' = update_cell(rows, header, row_num, "Connect Sent",
                                          IF connect_sent THEN "yes" ELSE "no")
                            /\ o_trace' = o_trace \o
                                 <<Ev("connect", o_idx), Ev("status", row_num)>>
                       ELSE /\ UNCHANGED rows
                            /\ o_trace' = Append(o_trace, Ev("connect", o_idx))
           ELSE /\ out = NoResult
                /\ o_cur' = [o_cur EXCEPT !.connect = NoResult]
                /\ IF sheets /\ row_num # 0
                   THEN /\ rows' = update_cell(
                                     update_cell(rows, header, row_num, "Connect Sent", "yes"),
                                     header, row_num, "Connection Status", "connected")
                        /\ o_trace' = Append(o_trace, Ev("status", row_num))
                   ELSE UNCHANGED <<rows, o_trace>>
    /\ processed_count' = processed_count + 1
    /\ IF processed_count + 1 >= settings.max_profiles
       THEN o_pc' = "exit" /\ UNCHANGED o_idx
       ELSE o_pc' = "scrape" /\ o_idx' = o_idx + 1
    /\ UNCHANGED <<OrchFrame, sheets, header, o_results, row_mapping,
                   o_session, o_error>>

\* the for loop ran off the end of search_results
OrchLoopEnd ==
    /\ o_pc = "scrape"
    /\ o_idx > Len(o_results)
    /\ o_pc' = "exit"
    /\ UNCHANGED <<OrchFrame, sheets, header, rows, o_results, row_mapping,
                   o_idx, processed_count, o_cur, o_session, o_trace, o_error>>

\* leaving the async-with block: __aexit__ runs, then run() returns or the
\* pending exception propagates
OrchExit ==
    /\ o_pc = "exit"
    /\ o_session' = "released"
    /\ o_pc' = IF o_error = "none" THEN "done" ELSE "raised"
    /\ UNCHANGED <<OrchFrame, sheets, header, rows, o_results, row_mapping,
                   o_idx, processed_count, o_cur, o_trace, o_error>>

\* the session, search and connect calls of a run are steps of run() here
OrchOthers == UNCHANGED <<esVars, spVars, cwVars, ssVars, bsVars, ehVars, clVars, scVars,
                     aiVars, brVars, uiVars, biVars>>

OrchNext ==
    \/ OrchOthers /\ OrchCheckConfig
    \/ OrchOthers /\ OrchInitSheets
    \/ OrchOthers /\ OrchInitGemini
    \/ OrchOthers /\ \E ok \in BOOLEAN : OrchEnter(ok)
    \/ OrchOthers /\ \E ok \in BOOLEAN : OrchLogin(ok)
    \/ OrchOthers /\ o_pc = "search"
          /\ \E res \in OrchResultLists, ok \in BOOLEAN : OrchSearch(res, ok)
    \/ OrchOthers /\ OrchSaveResult
    \/ OrchOthers /\ OrchPass1Done
    \/ OrchOthers /\ \E ok \in BOOLEAN : OrchScrape(ok)
    \/ OrchOthers /\ OrchUpdateProfile
    \/ OrchOthers /\ \E ok \in BOOLEAN : OrchSummary(ok)
    \/ OrchOthers /\ \E ok \in BOOLEAN : OrchNote(ok)
    \/ OrchOthers /\ o_pc = "connect"
          /\ \E out \in ConnectOutcomes \cup {NoResult} : OrchConnect(out)
    \/ OrchOthers /\ OrchLoopEnd
    \/ OrchOthers /\ OrchExit

(***************************************************************************)
(*                SheetsClient.update_row on its own                       *)
(***************************************************************************)

\* bound: data rows of the worksheet
MaxBsRows == 2

\* headers: plain, with a repeated name, and narrower than the data rows
BsHeaders == { <<"Name", "Summary", "Connect Sent">>, <<"Name", "Summary", "Name">>,
               <<"Summary", "Name">> }

\* column_updates dictionaries: any subset of three names, one of them in no header
BsUpdates == UNION {[S -> {"new"}] : S \in SUBSET {"Name", "Summary", "Bogus"}}

NoCall == [called |-> FALSE, row_num |-> 0, updates |-> <<>>, before |-> <<>>,
           issued |-> 0]

BsInit ==
    /\ bs_header \in BsHeaders
    /\ bs_rows = [k \in 1..MaxBsRows |-> <<"old", "old", "old">>]
    /\ bs_last = NoCall

\* one call update_row(row_num, column_updates); issued counts the
\* worksheet.batch_update calls it makes
BsUpdateRow(row_num, column_updates) ==
    /\ bs_rows' = update_row(bs_rows, bs_header, row_num, column_updates)
    /\ bs_last' = [called |-> TRUE, row_num |-> row_num, updates |-> column_updates,
                   before |-> bs_rows,
                   issued |-> IF UpdateBatch(bs_header, row_num, column_updates) # {}
                              THEN 1 ELSE 0]
    /\ UNCHANGED bs_header

\* the call leaves the other objects alone
BsOthers == UNCHANGED <<esVars, spVars, cwVars, ssVars, orchVars, ehVars, clVars, scVars,
                     aiVars, brVars, uiVars, biVars>>

BsNext ==
    BsOthers /\ \E r \in 2..(MaxBsRows + 1), u \in BsUpdates : BsUpdateRow(r, u)

(***************************************************************************)
(*         EnhancedSheetsClient.__init__ on an existing worksheet          *)
(***************************************************************************)

\* bound: data rows of the worksheet that is opened
MaxPriorRows == 2

\* Row 1 of the worksheet before the open: every earlier, shorter version of
\* the column list, a hand-made header with a blank cell and a foreign
\* column, and a reordered one. row_values(1) ends at the last filled cell.
PriorHeaders ==
    {SubSeq(COLUMNS, 1, n) : n \in 0..Len(COLUMNS)}
        \cup { <<"name", "", "legacy", "profile_url">>,
               <<"profile_url", "name", "connect_sent">> }

\* the canonical header written over row 1
_ensure_headers_Rewrite(current_headers) == COLUMNS

\* EnhancedSheetsClient._ensure_headers, lines 159-174: row 1 after the
\* update_cell calls, one per missing column, placed after the last cell
_ensure_headers(current_headers) ==
    current_headers \o SelectSeq(COLUMNS, LAMBDA col : col \notin Range(current_headers))

\* lines 166-169: the grid is widened when the new header needs it
ResizedCols(col_count, current_headers) ==
    LET needed_cols == Len(_ensure_headers(current_headers))
    IN  IF needed_cols # Len(current_headers) /\ col_count < needed_cols
        THEN needed_cols ELSE col_count

EhInit ==
    /\ eh_pc = "closed"
    /\ esHeader \in PriorHeaders
    /\ \E n \in 0..MaxPriorRows :
          esRows = [k \in 1..n |-> [i \in 1..(Len(esHeader) + 1) |-> "data"]]
    /\ esCalls = <<>>
    /\ eh_cols \in {Len(esHeader) + 1, Len(esHeader) + 5}
    /\ eh_before = <<>>

\* lines 110-112: the worksheet exists; repair its header
EhOpen ==
    /\ eh_pc = "closed"
    /\ eh_pc' = "open"
    /\ eh_before' = [header |-> esHeader, rows |-> esRows, cols |-> eh_cols]
    /\ esHeader' = _ensure_headers(esHeader)
    /\ eh_cols' = ResizedCols(eh_cols, esHeader)
    /\ UNCHANGED <<esRows, esCalls>>

\* the open leaves the other objects alone
EhOthers == UNCHANGED <<spVars, cwVars, ssVars, orchVars, bsVars, clVars, scVars, aiVars,
                     brVars, uiVars, biVars>>

EhNext == EhOthers /\ EhOpen

(***************************************************************************)
(*                  _col_num_to_letter of both clients                     *)
(***************************************************************************)

\* bound: the largest column number converted
MaxCol == 703

ClInit ==
    /\ cl_n \in 1..MaxCol
    /\ cl_basic = <<>>
    /\ cl_enhanced = <<>>

\* both clients convert the same column number
ClConvert ==
    /\ cl_basic = <<>>
    /\ cl_basic' = _col_num_to_letter(cl_n)
    /\ cl_enhanced' = Enhanced_col_num_to_letter(cl_n)
    /\ UNCHANGED cl_n

ClOthers == UNCHANGED <<esVars, spVars, cwVars, ssVars, orchVars, bsVars, ehVars, scVars,
                     aiVars, brVars, uiVars, biVars>>

ClNext == ClOthers /\ ClConvert

(***************************************************************************)
(*                       compute_popularity_score                          *)
(***************************************************************************)

\* bound: length of the seniority keyword list
MaxKw == 4

\* Scores are held in fixed point, Unit parts to the point: one follower is
\* worth 5.0 / 1000.0 of a point, which is one part.
Unit == 200

\* followers_count is None
NoCount == -1

\* no score returned yet
NoScore == -1

\* str.lower() on the characters used here
LowerAlphabet ==
    << "a", "b", "c", "d", "e", "f", "g", "h", "i", "j", "k", "l", "m",
       "n", "o", "p", "q", "r", "s", "t", "u", "v", "w", "x", "y", "z" >>

lower(text) ==
    [i \in DOMAIN text |->
        IF \E k \in DOMAIN Alphabet : Alphabet[k] = text[i]
        THEN LowerAlphabet[CHOOSE k \in DOMAIN Alphabet : Alphabet[k] = text[i]]
        ELSE text[i]]

\* Python's `needle in hay` on strings; the empty string is in every string
Substring(hay, needle) ==
    \E i \in 0..(Len(hay) - Len(needle)) : SubSeq(hay, i + 1, i + Len(needle)) = needle

\* " ".join(parts)
RECURSIVE JoinSpace(_)
JoinSpace(parts) ==
    IF parts = <<>> THEN <<>>
    ELSE IF Len(parts) = 1 THEN parts[1]
    ELSE parts[1] \o <<" ">> \o JoinSpace(Tail(parts))

\* line 15: " ".join(filter(None, [profile.headline, profile.about or ""]))
text_blob(profile) ==
    JoinSpace(SelectSeq(<< profile.headline,
                           IF profile.about = NoText THEN <<>> ELSE profile.about >>,
                        LAMBDA part : part # NoText /\ part # <<>>))

\* lines 11-13: the follower term, min(30.0, followers_count / 1000.0 * 5.0)
FollowerTerm(profile) ==
    IF profile.followers_count # NoCount /\ profile.followers_count # 0
    THEN Min(30 * Unit, (profile.followers_count * 5 * Unit) \div 1000)
    ELSE 0

\* lines 19-21: 10.0 for every keyword of the list found in the text
KeywordTerm(profile, seniority_keywords) ==
    10 * Unit * Cardinality({k \in DOMAIN seniority_keywords :
                                Substring(lower(text_blob(profile)),
                                          lower(seniority_keywords[k]))})

\* line 24: skills_bonus
skills_bonus(profile) == Min(20 * Unit, Len(profile.skills) * Unit)

\* line 28: exp_bonus
exp_bonus(profile) == Min(20 * Unit, (Len(profile.experiences) * 3 * Unit) \div 2)

\* lines 8-29: score before the cap
RawScore(profile, seniority_keywords) ==
    FollowerTerm(profile) + KeywordTerm(profile, seniority_keywords)
        + skills_bonus(profile) + exp_bonus(profile)

\* round(x, 2): x in parts, the result in hundredths. A value half-way between
\* two hundredths is not a binary fraction; the float lies just above or
\* just below it, and the result is the neighbour on that side.
round2(x) ==
    IF (x * 100) % Unit = 0
    THEN {(x * 100) \div Unit}
    ELSE {(x * 100) \div Unit, (x * 100) \div Unit + 1}

\* the score rounded without the cap
compute_popularity_score_NoCap(profile, seniority_keywords) ==
    round2(RawScore(profile, seniority_keywords))

\* compute_popularity_score: the values round(min(score, 100.0), 2) can take
compute_popularity_score(profile, seniority_keywords) ==
    round2(Min(RawScore(profile, seniority_keywords), 100 * Unit))

\* the inputs: follower counts around the 30-point cap, list lengths around
\* the 20-point caps, and the extremes of test_caps_at_or_below_100
FollowerCounts == {NoCount, 0, 1, 5000, 6001, 1000000}
SkillCounts == {0, 4, 20, 100}
ExperienceCounts == {0, 13, 14, 100}
Headlines == {NoText, <<>>, <<"C", "T", "O">>}
Abouts == {NoText, <<>>, <<"v", "p">>}
Keywords == {<<"c", "t", "o">>, <<"O", " ", "V">>, <<>>}

ScProfiles ==
    {[headline |-> h, about |-> a,
      skills |-> [i \in 1..ns |-> "y"], experiences |-> [i \in 1..ne |-> "x"],
      followers_count |-> f] :
        h \in Headlines, a \in Abouts, ns \in SkillCounts, ne \in ExperienceCounts,
        f \in FollowerCounts}

ScInit ==
    /\ sc_profile \in ScProfiles
    /\ sc_keywords \in UNION {[1..n -> Keywords] : n \in 0..MaxKw}
    /\ sc_score = NoScore

\* one call compute_popularity_score(profile, seniority_keywords)
ScScore ==
    /\ sc_score = NoScore
    /\ sc_score' \in compute_popularity_score(sc_profile, sc_keywords)
    /\ UNCHANGED <<sc_profile, sc_keywords>>

ScOthers == UNCHANGED <<esVars, spVars, cwVars, ssVars, orchVars, bsVars, ehVars, clVars,
                     aiVars, brVars, uiVars, biVars>>

ScNext == ScOthers /\ ScScore

(***************************************************************************)
(*        generate_inmail_note and craft_connect_note on a model output     *)
(***************************************************************************)

\* bound: how far the lengths of the model outputs range around the limits
MaxExtra == 2

\* the characters str.strip() removes from both ends
Whitespace == {" ", "\n", "\t"}

\* str.strip() with no argument
StripWs(text) ==
    LET nb == {i \in DOMAIN text : text[i] \notin Whitespace}
    IN  IF nb = {} THEN <<>>
        ELSE LET lo == CHOOSE i \in nb : \A j \in nb : i <= j
                 hi == CHOOSE i \in nb : \A j \in nb : j <= i
             IN  SubSeq(text, lo, hi)

\* str.replace("\n", " ")
ReplaceNewlines(text) == [i \in DOMAIN text |-> IF text[i] = "\n" THEN " " ELSE text[i]]

\* text[:n]
Prefix(text, n) == SubSeq(text, 1, Min(n, Len(text)))

\* the same with the cut at 300 characters before the dots
generate_inmail_note_Cut300(text) ==
    LET message == ReplaceNewlines(StripWs(text))
    IN  IF Len(message) > 300 THEN Prefix(message, 300) \o <<".", ".", ".">> ELSE message

\* EnhancedGeminiClient.generate_inmail_note, lines 52-60, on response.text
generate_inmail_note(text) ==
    LET message == ReplaceNewlines(StripWs(text))
    IN  IF Len(message) > 300 THEN Prefix(message, 297) \o <<".", ".", ".">> ELSE message

\* the same without the final slice
craft_connect_note_NoCut(text) == ReplaceNewlines(StripWs(text))

\* GeminiClient.craft_connect_note, lines 59-60, on response.text
craft_connect_note(text) == Prefix(ReplaceNewlines(StripWs(text)), 280)

\* a model output of n characters with newlines at the positions nl
Body(n, nl) == [i \in 1..n |-> IF i \in nl THEN "\n" ELSE "a"]

\* lengths of the outputs: empty, short, and around both limits
BodyLengths ==
    {0, 5} \cup ((280 - MaxExtra)..(280 + MaxExtra)) \cup ((300 - MaxExtra)..(300 + MaxExtra))

\* where the newlines of an output are: nowhere, a single one, two in a
\* row, one on the last character kept by either cut
NewlinePlaces == { {}, {2}, {3, 4}, {280}, {297} }

\* the model outputs: leading and trailing whitespace around a body
ModelOutputs ==
    {lead \o Body(n, nl) \o trail :
        lead \in {<<>>, <<" ">>, <<"\n", "\t">>},
        n \in BodyLengths, nl \in NewlinePlaces,
        trail \in {<<>>, <<" ", "\n">>}}

AiInit ==
    /\ ai_text \in ModelOutputs
    /\ ai_inmail = NoText
    /\ ai_note = NoText

\* one call of generate_inmail_note whose model call returned ai_text
AiInmail ==
    /\ ai_inmail = NoText
    /\ ai_inmail' = generate_inmail_note(ai_text)
    /\ UNCHANGED <<ai_text, ai_note>>

\* one call of craft_connect_note whose model call returned ai_text
AiConnectNote ==
    /\ ai_note = NoText
    /\ ai_note' = craft_connect_note(ai_text)
    /\ UNCHANGED <<ai_text, ai_inmail>>

AiOthers == UNCHANGED <<esVars, spVars, cwVars, ssVars, orchVars, bsVars, ehVars, clVars,
                     scVars, brVars, uiVars, biVars>>

AiNext ==
    \/ AiOthers /\ AiInmail
    \/ AiOthers /\ AiConnectNote

(***************************************************************************)
(*      LinkedInAutomationIntegration: run_automation against stop()        *)
(***************************************************************************)

\* bound: search results of a bridge run
MaxBrCands == 3

\* after __init__, lines 46-54
BrInit ==
    /\ br_pc = "idle"
    /\ is_running = FALSE
    /\ br_found = 0
    /\ br_max = 0
    /\ br_idx = 0
    /\ br_processed = 0
    /\ stop_called = FALSE
    /\ br_begun = <<>>

\* run_automation(keywords, locations, max_profiles) is called on the
\* worker; nothing of its body has run yet
BrCall(max_profiles) ==
    /\ br_pc = "idle"
    /\ br_pc' = "check"
    /\ br_max' = max_profiles
    /\ UNCHANGED <<is_running, br_found, br_idx, br_processed, stop_called, br_begun>>

\* lines 124-126: `if self.is_running: return`
BrCheck ==
    /\ br_pc = "check"
    /\ br_pc' = IF is_running THEN "ended" ELSE "set"
    /\ UNCHANGED <<is_running, br_found, br_max, br_idx, br_processed, stop_called,
                   br_begun>>

\* line 128: self.is_running = True
BrSetRunning ==
    /\ br_pc = "set"
    /\ is_running' = TRUE
    /\ br_pc' = "setup"
    /\ UNCHANGED <<br_found, br_max, br_idx, br_processed, stop_called, br_begun>>

\* lines 130-173: browser, login, search; any of them may raise, which
\* leads to the handler of line 303 and the finally clause
BrSetup(ok, found) ==
    /\ br_pc = "setup"
    /\ IF ok
       THEN /\ br_pc' = "loop"
            /\ br_found' = found
            /\ br_idx' = 0
            /\ br_processed' = 0
       ELSE /\ br_pc' = "finally"
            /\ UNCHANGED <<br_found, br_idx, br_processed>>
    /\ UNCHANGED <<is_running, br_max, stop_called, br_begun>>

\* lines 176-179: the head of the for loop; the candidate is begun only if
\* is_running is still set
BrLoopTop ==
    /\ br_pc = "loop"
    /\ IF br_idx >= br_found \/ ~is_running
       THEN br_pc' = "finally" /\ UNCHANGED br_begun
       ELSE /\ br_pc' = "processing"
            /\ br_begun' = Append(br_begun, [idx |-> br_idx, after_stop |-> stop_called])
    /\ UNCHANGED <<is_running, br_found, br_max, br_idx, br_processed, stop_called>>

\* lines 193-300: the candidate is extracted, scored, written and connected
\* to, or an exception ends it early; then the cap test of line 299
BrProcess(ok) ==
    /\ br_pc = "processing"
    /\ br_processed' = IF ok THEN br_processed + 1 ELSE br_processed
    /\ br_idx' = br_idx + 1
    /\ br_pc' = IF br_processed' >= br_max THEN "finally" ELSE "loop"
    /\ UNCHANGED <<is_running, br_found, br_max, stop_called, br_begun>>

\* lines 306-307: finally: self.is_running = False
BrFinally ==
    /\ br_pc = "finally"
    /\ is_running' = FALSE
    /\ br_pc' = "ended"
    /\ UNCHANGED <<br_found, br_max, br_idx, br_processed, stop_called, br_begun>>

\* lines 309-311: stop(), from another thread, at any moment after the body
\* of run_automation has begun to run
BrStop ==
    /\ br_pc \notin {"idle", "check"}
    /\ is_running' = FALSE
    /\ stop_called' = TRUE
    /\ UNCHANGED <<br_pc, br_found, br_max, br_idx, br_processed, br_begun>>

BrOthers == UNCHANGED <<esVars, spVars, cwVars, ssVars, orchVars, bsVars, ehVars, clVars,
                     scVars, aiVars, uiVars, biVars>>

BrNext ==
    \/ BrOthers /\ \E m \in 1..MaxBrCands : BrCall(m)
    \/ BrOthers /\ BrCheck
    \/ BrOthers /\ BrSetRunning
    \/ BrOthers /\ br_pc = "setup" /\ \E ok \in BOOLEAN, n \in 0..MaxBrCands : BrSetup(ok, n)
    \/ BrOthers /\ BrLoopTop
    \/ BrOthers /\ \E ok \in BOOLEAN : BrProcess(ok)
    \/ BrOthers /\ BrFinally
    \/ BrOthers /\ BrStop

(***************************************************************************)
(*        LinkedInAutomationUI: the worker thread and the queue timer       *)
(***************************************************************************)

\* bound: runs started from the GUI
MaxUiRuns == 2

\* bound: candidates of one run
MaxUiCands == 2

\* the runs the GUI may start; each run has its own worker thread
UiThreads == 1..MaxUiRuns

\* a worker thread is alive from Thread.start() to the end of run_automation
Alive(t) == ui_pc[t] \in {"async", "run", "orchestrator"}

\* after __init__, lines 37-63: empty queues, no thread, the LogHandler on the
\* root logger (setup_logging), Start enabled and Stop disabled (lines
\* 220-239), the timer armed
UiInit ==
    /\ ui_pc = [t \in UiThreads |-> "none"]
    /\ automation_running = FALSE
    /\ ui_runs = 0
    /\ ui_left = [t \in UiThreads |-> 0]
    /\ ui_completed = <<>>
    /\ log_queue = <<>>
    /\ profile_queue = <<>>
    /\ profiles_data = <<>>
    /\ log_text = <<>>
    /\ start_button = "normal"
    /\ root_handlers = {"LogHandler"}
    /\ ui_emitted = <<>>

\* start_automation, lines 501-525, on a press of the enabled Start button:
\* the flag is tested and set, the table is cleared and a new worker thread
\* started; cands is what the search of this run will find
UiStart(cands) ==
    /\ start_button = "normal"
    /\ ~automation_running
    /\ ui_runs < MaxUiRuns
    /\ automation_running' = TRUE
    /\ start_button' = "disabled"
    /\ ui_runs' = ui_runs + 1
    /\ profiles_data' = <<>>
    /\ ui_completed' = <<>>
    /\ ui_left' = [ui_left EXCEPT ![ui_runs + 1] = cands]
    /\ ui_pc' = [ui_pc EXCEPT ![ui_runs + 1] = "async"]
    /\ UNCHANGED <<log_queue, profile_queue, log_text, root_handlers, ui_emitted>>

\* stop_automation, lines 527-531, on a press of the enabled Stop button:
\* the flag is cleared and Start enabled again; the worker thread is not
\* told anything
UiStop ==
    /\ start_button = "disabled"
    /\ automation_running' = FALSE
    /\ start_button' = "normal"
    /\ UNCHANGED <<ui_pc, ui_runs, ui_left, ui_completed, log_queue, profile_queue,
                   profiles_data, log_text, root_handlers, ui_emitted>>

\* run_automation_async, lines 543-575: the settings are read and exported
\* to the environment, and a warning is put on the log queue for each
\* missing key
UiAsyncBegin(t, warn) ==
    /\ ui_pc[t] = "async"
    /\ log_queue' = IF warn THEN Append(log_queue, "Warning") ELSE log_queue
    /\ ui_pc' = [ui_pc EXCEPT ![t] = "run"]
    /\ UNCHANGED <<automation_running, ui_runs, ui_left, ui_completed, profile_queue,
                   profiles_data, log_text, start_button, root_handlers, ui_emitted>>

\* logging_config.configure_logging: logging.basicConfig(handlers=[RichHandler
\* or StreamHandler], force=True) removes every handler the root logger has
\* and attaches the new one
configure_logging(handlers) == {"ConsoleHandler"}

\* the record a worker logs through the root logger for each candidate
\* (orchestrator.py:140)
ProcessingRecord == "Processing profile"

\* `await run_orchestrator()`, orchestrator.py:26-29: run() begins with
\* load_settings and configure_logging
UiOrchestratorBegin(t) ==
    /\ ui_pc[t] = "run"
    /\ root_handlers' = configure_logging(root_handlers)
    /\ ui_pc' = [ui_pc EXCEPT ![t] = "orchestrator"]
    /\ UNCHANGED <<automation_running, ui_runs, ui_left, ui_completed, log_queue,
                   profile_queue, profiles_data, log_text, start_button, ui_emitted>>

\* the orchestrator completes one candidate on the worker thread. Its log
\* record goes to the handlers of the root logger, and so to log_queue only
\* if the LogHandler is one of them; nothing is put on profile_queue.
UiCandidate(t) ==
    /\ ui_pc[t] = "orchestrator"
    /\ ui_left[t] > 0
    /\ ui_left' = [ui_left EXCEPT ![t] = @ - 1]
    /\ ui_completed' = Append(ui_completed, [run |-> t, idx |-> Len(ui_completed) + 1])
    /\ ui_emitted' = Append(ui_emitted, ProcessingRecord)
    /\ log_queue' = IF "LogHandler" \in root_handlers
                    THEN Append(log_queue, ProcessingRecord) ELSE log_queue
    /\ UNCHANGED <<ui_pc, automation_running, ui_runs, profile_queue, profiles_data,
                   log_text, start_button, root_handlers>>

\* lines 579-583 and 536-541: run_orchestrator returns or raises, the
\* outcome is put on the log queue, and run_automation's finally clause
\* clears the flag and schedules on_automation_complete; the thread ends
UiOrchestratorEnd(t, ok) ==
    /\ ui_pc[t] = "orchestrator"
    /\ ok => ui_left[t] = 0
    /\ log_queue' = IF ok THEN Append(log_queue, "Automation completed successfully")
                    ELSE log_queue \o <<"Automation failed", "Automation error">>
    /\ automation_running' = FALSE
    /\ ui_pc' = [ui_pc EXCEPT ![t] = "completing"]
    /\ UNCHANGED <<ui_runs, ui_left, ui_completed, profile_queue, profiles_data, log_text,
                   start_button, root_handlers, ui_emitted>>

\* on_automation_complete, lines 598-602, scheduled by the thread of run t
UiOnComplete(t) ==
    /\ ui_pc[t] = "completing"
    /\ log_queue' = Append(log_queue, "Automation completed")
    /\ start_button' = "normal"
    /\ ui_pc' = [ui_pc EXCEPT ![t] = "done"]
    /\ UNCHANGED <<automation_running, ui_runs, ui_left, ui_completed, profile_queue,
                   profiles_data, log_text, root_handlers, ui_emitted>>

\* process_queues, lines 662-682: one timer tick drains both queues
process_queues ==
    /\ log_text' = log_text \o log_queue
    /\ log_queue' = <<>>
    /\ profiles_data' = profiles_data \o profile_queue
    /\ profile_queue' = <<>>
    /\ UNCHANGED <<ui_pc, automation_running, ui_runs, ui_left, ui_completed,
                   start_button, root_handlers, ui_emitted>>

UiOthers == UNCHANGED <<esVars, spVars, cwVars, ssVars, orchVars, bsVars, ehVars, clVars,
                     scVars, aiVars, brVars, biVars>>

UiNext ==
    \/ UiOthers /\ \E n \in 0..MaxUiCands : UiStart(n)
    \/ UiOthers /\ UiStop
    \/ UiOthers /\ \E t \in UiThreads, warn \in BOOLEAN : UiAsyncBegin(t, warn)
    \/ UiOthers /\ \E t \in UiThreads : UiOrchestratorBegin(t)
    \/ UiOthers /\ \E t \in UiThreads : UiCandidate(t)
    \/ UiOthers /\ \E t \in UiThreads, ok \in BOOLEAN : UiOrchestratorEnd(t, ok)
    \/ UiOthers /\ \E t \in UiThreads : UiOnComplete(t)
    \/ UiOthers /\ process_queues

(***************************************************************************)
(*   LinkedInAutomationIntegration: initialize, then run_automation's      *)
(*   construction of the browser session                                   *)
(***************************************************************************)

\* a dictionary with no key; an object with no attribute
NoKeys == [k \in {} |-> ""]

\* config.load_settings(): the Settings fields the bridge passes on, with the
\* values an empty environment gives them (values are written as text)
load_settings ==
    [a \in {"headless", "debug", "max_profiles"} |->
        CASE a = "headless"     -> "False"
          [] a = "debug"        -> "False"
          [] a = "max_profiles" -> "25"]

\* keys a caller may put in custom_settings; ui_app.py:550-558 builds one with test_mode
OverrideKeys == {"headless", "debug", "max_profiles", "test_mode"}

OverrideValues(k) ==
    CASE k = "headless"     -> {"True"}
      [] k = "debug"        -> {"True"}
      [] k = "max_profiles" -> {"5"}
      [] k = "test_mode"    -> {"True", "False"}

\* the custom_settings dictionaries tried (the empty one stands for None too)
CustomSettings ==
    UNION {{f \in [K -> {"True", "False", "5"}] : \A k \in K : f[k] \in OverrideValues(k)}
              : K \in SUBSET OverrideKeys}

\* lines 74-77: setattr for the keys the Settings object has an attribute for
ApplyOverrides(loaded, custom_settings) ==
    [a \in DOMAIN loaded |->
        IF a \in DOMAIN custom_settings THEN custom_settings[a] ELSE loaded[a]]

\* how the spreadsheet constructors fare: no sheet configured, the enhanced
\* client is built, only the basic one is, or both raise
SheetSetups == {"unset", "enhanced_ok", "basic_ok", "both_fail"}

\* the Settings attributes run_automation reads to build LinkedInAutomation
\* (lines 135-147), of those modelled
LinkedInArgs == {"headless", "debug", "test_mode"}

BiInit ==
    /\ bi_pc = "new"
    /\ bi_custom = NoKeys
    /\ bi_settings = NoKeys
    /\ bi_sheets = "none"
    /\ bi_li_args = NoKeys

\* initialize(custom_settings), lines 70-120: returns True unless a
\* constructor outside the inner try blocks raises
BiInitialize(custom_settings, sheet_setup, gemini_ok) ==
    /\ bi_pc = "new"
    /\ bi_custom' = custom_settings
    /\ bi_settings' = ApplyOverrides(load_settings, custom_settings)
    /\ bi_sheets' = CASE sheet_setup = "enhanced_ok" -> "enhanced"
                      [] sheet_setup = "basic_ok"    -> "basic"
                      [] OTHER                       -> "none"
    /\ bi_pc' = IF sheet_setup = "both_fail" \/ ~gemini_ok
                THEN "init_failed" ELSE "initialized"
    /\ UNCHANGED bi_li_args

\* run_automation, lines 130-148: the constructor arguments are read off
\* self.settings; an attribute that is missing raises AttributeError, which
\* the handler of line 303 logs; otherwise the session is entered, which may
\* fail to launch
BiRunAutomation(launch_ok) ==
    /\ bi_pc = "initialized"
    /\ IF LinkedInArgs \subseteq DOMAIN bi_settings
       THEN /\ bi_li_args' = [a \in LinkedInArgs |-> bi_settings[a]]
            /\ bi_pc' = IF launch_ok THEN "opened" ELSE "error"
       ELSE /\ bi_pc' = "error"
            /\ UNCHANGED bi_li_args
    /\ UNCHANGED <<bi_custom, bi_settings, bi_sheets>>

BiOthers == UNCHANGED <<esVars, spVars, cwVars, ssVars, orchVars, bsVars, ehVars, clVars,
                     scVars, aiVars, brVars, uiVars>>

BiNext ==
    \/ BiOthers /\ \E c \in CustomSettings, e \in SheetSetups, g \in BOOLEAN :
                      BiInitialize(c, e, g)
    \/ BiOthers /\ \E l \in BOOLEAN : BiRunAutomation(l)

(***************************************************************************)
(*                          Specifications                                 *)
(***************************************************************************)

\* the subsystems a specification does not exercise stay idle
EsIdle == esHeader = COLUMNS /\ esRows = <<>> /\ esCalls = <<>>

SpIdle ==
    /\ sp_pc = "idle" /\ site_empty = FALSE /\ max_results = 1
    /\ search_results = <<>> /\ page_number = 1 /\ stagnant_rounds = 0
    /\ processed_urls = {} /\ page_round = 0 /\ results_before_round = 0
    /\ scan_n = 0 /\ last_seen = NoSeen /\ skipped_urls = {}

CwIdle ==
    /\ cw_env = [goto_ok |-> TRUE, direct |-> FALSE, more |-> FALSE,
                 dropdown |-> FALSE, add_note |-> FALSE,
                 send_without_note |-> FALSE, textarea |-> FALSE,
                 fill_ok |-> TRUE, cancel |-> FALSE, send |-> FALSE,
                 click_fails |-> "none"]
    /\ cw_test_mode = TRUE
    /\ cw_out = NoResult

SsIdle ==
    /\ ss_pc = "idle"
    /\ ss_cfg = [use_persistent_context |-> TRUE, user_data_dir |-> TRUE,
                 storage_state_path |-> TRUE, persistent_has_browser |-> FALSE]
    /\ browser = "none" /\ browserOpen = FALSE /\ engineRunning = FALSE
    /\ bodyRaised = FALSE /\ exitRaised = FALSE
    /\ feed_reached = "n/a" /\ storage_written = FALSE

OrchIdle ==
    /\ o_pc = "idle"
    /\ settings = [linkedin_email |-> TRUE, linkedin_password |-> TRUE,
                   search_keywords |-> TRUE, google_api_key |-> TRUE,
                   gsheet |-> FALSE, max_profiles |-> 1]
    /\ sheetEnv = [init_fails |-> FALSE, worksheet |-> "absent", prior |-> "none"]
    /\ sheets = FALSE /\ header = <<>> /\ rows = <<>> /\ o_results = <<>>
    /\ row_mapping = [u \in OrchUrls |-> 0] /\ o_idx = 0
    /\ processed_count = 0 /\ o_cur = NoCur /\ o_session = "closed"
    /\ o_trace = <<>> /\ o_error = "none"

BsIdle == bs_header = <<>> /\ bs_rows = <<>> /\ bs_last = NoCall

EhIdle == eh_pc = "idle" /\ eh_cols = 0 /\ eh_before = <<>>

ClIdle == cl_n = 0 /\ cl_basic = <<>> /\ cl_enhanced = <<>>

ScIdle == sc_profile = <<>> /\ sc_keywords = <<>> /\ sc_score = NoScore

AiIdle == ai_text = <<>> /\ ai_inmail = NoText /\ ai_note = NoText

BrIdle ==
    /\ br_pc = "off" /\ is_running = FALSE /\ br_found = 0 /\ br_max = 0 /\ br_idx = 0
    /\ br_processed = 0 /\ stop_called = FALSE /\ br_begun = <<>>

UiIdle ==
    /\ ui_pc = <<>> /\ automation_running = FALSE /\ ui_runs = 0 /\ ui_left = <<>>
    /\ ui_completed = <<>> /\ log_queue = <<>> /\ profile_queue = <<>>
    /\ profiles_data = <<>> /\ log_text = <<>>
    /\ start_button = "off" /\ root_handlers = {} /\ ui_emitted = <<>>

BiIdle ==
    /\ bi_pc = "off" /\ bi_custom = NoKeys /\ bi_settings = NoKeys
    /\ bi_sheets = "none" /\ bi_li_args = NoKeys

\* EnhancedSheetsClient under arbitrary call sequences
InitSheets == EsInit /\ SpIdle /\ CwIdle /\ SsIdle /\ OrchIdle /\ BsIdle /\ EhIdle
    /\ ClIdle /\ ScIdle /\ AiIdle /\ BrIdle /\ UiIdle /\ BiIdle
NextSheets == EsNext
SpecSheets == InitSheets /\ [][NextSheets]_vars

\* one call of search_people
InitSearch == SpInit /\ EsIdle /\ CwIdle /\ SsIdle /\ OrchIdle /\ BsIdle /\ EhIdle
    /\ ClIdle /\ ScIdle /\ AiIdle /\ BrIdle /\ UiIdle /\ BiIdle
NextSearch == SpNext
SpecSearch == InitSearch /\ [][NextSearch]_vars
\* the event loop keeps running the coroutine
SpecSearchFair == SpecSearch /\ WF_vars(NextSearch)

\* one call of connect_with_note
InitConnect == CwInit /\ EsIdle /\ SpIdle /\ SsIdle /\ OrchIdle /\ BsIdle /\ EhIdle
    /\ ClIdle /\ ScIdle /\ AiIdle /\ BrIdle /\ UiIdle /\ BiIdle
NextConnect == CwNext
SpecConnect == InitConnect /\ [][NextConnect]_vars

\* one browser session: __aenter__, login, body, __aexit__
InitSession == SsInit /\ EsIdle /\ SpIdle /\ CwIdle /\ OrchIdle /\ BsIdle /\ EhIdle
    /\ ClIdle /\ ScIdle /\ AiIdle /\ BrIdle /\ UiIdle /\ BiIdle
NextSession == SsNext
SpecSession == InitSession /\ [][NextSession]_vars

\* one run of the headless orchestrator
InitOrch == OrchInit /\ EsIdle /\ SpIdle /\ CwIdle /\ SsIdle /\ BsIdle /\ EhIdle
    /\ ClIdle /\ ScIdle /\ AiIdle /\ BrIdle /\ UiIdle /\ BiIdle
NextOrch == OrchNext
SpecOrch == InitOrch /\ [][NextOrch]_vars

\* SheetsClient.update_row under arbitrary call sequences
InitBasic == BsInit /\ EsIdle /\ SpIdle /\ CwIdle /\ SsIdle /\ OrchIdle /\ EhIdle
    /\ ClIdle /\ ScIdle /\ AiIdle /\ BrIdle /\ UiIdle /\ BiIdle
NextBasic == BsNext
SpecBasic == InitBasic /\ [][NextBasic]_vars

\* EnhancedSheetsClient opened on an existing worksheet
InitEnsure == EhInit /\ SpIdle /\ CwIdle /\ SsIdle /\ OrchIdle /\ BsIdle /\ ClIdle
    /\ ScIdle /\ AiIdle /\ BrIdle /\ UiIdle /\ BiIdle
NextEnsure == EhNext
SpecEnsure == InitEnsure /\ [][NextEnsure]_vars

\* the column-letter conversion of both clients on every column number
InitLetters == ClInit /\ EsIdle /\ SpIdle /\ CwIdle /\ SsIdle /\ OrchIdle /\ BsIdle
    /\ EhIdle /\ ScIdle /\ AiIdle /\ BrIdle /\ UiIdle /\ BiIdle
NextLetters == ClNext
SpecLetters == InitLetters /\ [][NextLetters]_vars

\* compute_popularity_score on profiles and keyword lists
InitScoring == ScInit /\ EsIdle /\ SpIdle /\ CwIdle /\ SsIdle /\ OrchIdle /\ BsIdle
    /\ EhIdle /\ ClIdle /\ AiIdle /\ BrIdle /\ UiIdle /\ BiIdle
NextScoring == ScNext
SpecScoring == InitScoring /\ [][NextScoring]_vars

\* the note generators on model outputs of every shape
InitNotes == AiInit /\ EsIdle /\ SpIdle /\ CwIdle /\ SsIdle /\ OrchIdle /\ BsIdle
    /\ EhIdle /\ ClIdle /\ ScIdle /\ BrIdle /\ UiIdle /\ BiIdle
NextNotes == AiNext
SpecNotes == InitNotes /\ [][NextNotes]_vars

\* the bridge's run_automation with stop() called from another thread
InitBridge == BrInit /\ EsIdle /\ SpIdle /\ CwIdle /\ SsIdle /\ OrchIdle /\ BsIdle
    /\ EhIdle /\ ClIdle /\ ScIdle /\ AiIdle /\ UiIdle /\ BiIdle
NextBridge == BrNext
SpecBridge == InitBridge /\ [][NextBridge]_vars

\* runs started from the GUI, with the queue timer ticking
InitUi == UiInit /\ EsIdle /\ SpIdle /\ CwIdle /\ SsIdle /\ OrchIdle /\ BsIdle /\ EhIdle
    /\ ClIdle /\ ScIdle /\ AiIdle /\ BrIdle /\ BiIdle
NextUi == UiNext
SpecUi == InitUi /\ [][NextUi]_vars

\* the bridge's initialize followed by run_automation
InitSetup == BiInit /\ EsIdle /\ SpIdle /\ CwIdle /\ SsIdle /\ OrchIdle /\ BsIdle /\ EhIdle
    /\ ClIdle /\ ScIdle /\ AiIdle /\ BrIdle /\ UiIdle
NextSetup == BiNext
SpecSetup == InitSetup /\ [][NextSetup]_vars

(***************************************************************************)
(*                              Properties                                 *)
(***************************************************************************)

EsUrlOf(k) == esRows[k][IndexOf(COLUMNS, "profile_url")]

\* C1: the enhanced client never holds two rows for one profile URL: an
\* add_profile call for a URL that already has a row appends nothing and
\* returns the row number the first call for that URL returned.
C1_NoDuplicateRows ==
    /\ \A i \in DOMAIN esRows, j \in DOMAIN esRows : i # j => EsUrlOf(i) # EsUrlOf(j)
    /\ \A n \in DOMAIN esCalls :
          esCalls[n].existed =>
             /\ ~esCalls[n].appended
             /\ \E m \in 1..(n-1) :
                   /\ esCalls[m].url = esCalls[n].url
                   /\ ~esCalls[m].existed
                   /\ esCalls[m].ret = esCalls[n].ret

\* C2: with test mode on, a finished connect_with_note call has clicked
\* neither "Send" nor "Send without a note".
C2_DryRunNeverSubmits ==
    (cw_test_mode /\ cw_out # NoResult) => ~Submitted(cw_out)

ResultUrls == {search_results[i].profile_url : i \in DOMAIN search_results}

HasResult(url, status) ==
    \E i \in DOMAIN search_results :
        /\ search_results[i].profile_url = url
        /\ search_results[i].connection_status = status

\* C3 as stated: for every container with a profile link the loop handled,
\* a button saying "message" means the candidate is not in the results, a
\* button saying "connect" / "follow" / "invite" means it is in the results
\* as "not_connected", no button means it is in the results as "unknown".
C3_EveryContainerClassified ==
    /\ last_seen.kind \in {"message", "both"} => last_seen.url \notin ResultUrls
    /\ last_seen.kind \in {"connect", "both"} => HasResult(last_seen.url, "not_connected")
    /\ last_seen.kind = "no_button" => HasResult(last_seen.url, "unknown")

\* C3 amended: the rule holds for a container whose profile URL the call
\* had not seen before, and "message" takes precedence over "connect" /
\* "follow" / "invite"; a URL first seen with a "message" button never
\* enters the results of the call.
C3_FirstSeenClassified ==
    /\ last_seen.fresh =>
          /\ last_seen.kind \in {"message", "both"} => last_seen.url \notin ResultUrls
          /\ last_seen.kind = "connect" => HasResult(last_seen.url, "not_connected")
          /\ last_seen.kind = "no_button" => HasResult(last_seen.url, "unknown")
    /\ skipped_urls \cap ResultUrls = {}

\* a finished search that skipped one candidate for its "Message" button
\* and returned another as "not_connected"
C3_Witness ==
    /\ sp_pc = "done"
    /\ skipped_urls # {}
    /\ \E i \in DOMAIN search_results :
          search_results[i].connection_status = "not_connected"

\* C4: on a site that shows no result container and no profile link,
\* search_people returns, and returns the empty list.
C4_EmptySearchReturns ==
    site_empty ~> (sp_pc = "done" /\ search_results = <<>>)

\* C5: no profile_url in the results carries a query string, and no two
\* results share a profile_url.
C5_CanonicalDistinctUrls ==
    /\ \A i \in DOMAIN search_results : ~Contains(search_results[i].profile_url, "?")
    /\ \A i \in DOMAIN search_results, j \in DOMAIN search_results :
          i # j => search_results[i].profile_url # search_results[j].profile_url

\* a result taken from an href with a query string is in the results, and
\* the loop has just met a link to an already listed profile again
C5_Witness ==
    /\ <<"/in/", "b">> \in ResultUrls
    /\ last_seen.kind \notin {"none", "no_link"}
    /\ ~last_seen.fresh
    /\ last_seen.url \in ResultUrls

RowWrites == {"identity", "summary", "note", "status"}

WriteRank(ev) ==
    CASE ev = "identity" -> 1
      [] ev = "summary"  -> 2
      [] ev = "note"     -> 3
      [] ev = "status"   -> 4
      [] OTHER           -> 0

\* the column a header gives the outreach status / the name
ConnectSentCol(hdr) ==
    IF "Connect Sent" \in Range(hdr) THEN IndexOf(hdr, "Connect Sent")
    ELSE IndexOf(hdr, "connect_sent")

NameCol(hdr) ==
    IF "Name" \in Range(hdr) THEN IndexOf(hdr, "Name") ELSE IndexOf(hdr, "name")

ConnectSentOf(k) ==
    IF ConnectSentCol(header) \in DOMAIN rows[k] THEN rows[k][ConnectSentCol(header)] ELSE ""

\* C6: the writes of a run to one row come in the order identity fields,
\* summary, connection note, outreach status; a row shows Connect Sent =
\* "yes" only if the run wrote its identity fields before, or an earlier
\* run left the row that way.
C6_WriteOrder ==
    /\ \A i \in DOMAIN o_trace, j \in DOMAIN o_trace :
          (/\ i < j
           /\ o_trace[i].ev \in RowWrites /\ o_trace[j].ev \in RowWrites
           /\ o_trace[i].row = o_trace[j].row)
          => WriteRank(o_trace[i].ev) < WriteRank(o_trace[j].ev)
    /\ \A k \in DOMAIN rows :
          ConnectSentOf(k) = "yes" =>
             \/ Ev("identity", k + 1) \in Range(o_trace)
             \/ k = 1 /\ sheetEnv.prior = "yes"

\* the run wrote "yes" into the Connect Sent cell of a row it appended
C6_Witness ==
    \E k \in DOMAIN rows :
        /\ ConnectSentOf(k) = "yes"
        /\ Ev("append", k + 1) \in Range(o_trace)
        /\ Ev("status", k + 1) \in Range(o_trace)

\* C7: an exception raised while one candidate is processed (scrape, AI
\* generation, connect) never leaves run().
C7_CandidateFailureContained ==
    o_error \notin {"scrape", "summary", "note", "connect"}

RowsHolding(url) == {k \in DOMAIN rows : \E i \in DOMAIN rows[k] : rows[k][i] = url}

\* C8: a finished run over one "not_connected" candidate, with a working
\* sheet and a connect call that returned true, leaves exactly one row for
\* the candidate, named as the scraped profile, with Connect Sent = "yes".
C8_OneRowNamedAndSent ==
    (/\ o_pc = "done"
     /\ sheets
     /\ Len(o_results) = 1
     /\ o_results[1].connection_status = "not_connected"
     /\ o_cur.connect.ret = "True")
    => /\ Cardinality(RowsHolding(o_results[1].profile_url)) = 1
       /\ \A k \in RowsHolding(o_results[1].profile_url) :
             /\ NameCol(header) \in DOMAIN rows[k]
             /\ rows[k][NameCol(header)] = ScrapedProfile(o_results[1].profile_url).name
             /\ ConnectSentOf(k) = "yes"

ConfigMissing ==
    ~settings.linkedin_email \/ ~settings.linkedin_password \/ ~settings.search_keywords

InitialRows == IF sheetEnv.prior = "none" THEN <<>> ELSE <<PriorRow(sheetEnv.prior)>>

\* C9: with the e-mail, the password or the keywords missing, run() raises
\* its configuration error with nothing done: no sheet client, no AI client,
\* no browser session, no login, no search, no sheet write.
C9_FailFast ==
    ConfigMissing =>
       /\ o_pc \in {"start", "raised"}
       /\ (o_pc = "raised" => o_error = "config")
       /\ o_trace = <<>>
       /\ ~sheets
       /\ o_session = "closed"
       /\ rows = InitialRows

\* the run has raised for missing keywords although a sheet and an API key
\* are configured
C9_Witness ==
    /\ o_pc = "raised" /\ o_error = "config"
    /\ settings.linkedin_email /\ settings.linkedin_password
    /\ ~settings.search_keywords
    /\ settings.gsheet /\ settings.google_api_key

\* C10: once the session scope has been left, the browser is closed and
\* the driver is stopped.
C10_ReleasedMeansClosed ==
    ss_pc = "released" => (~browserOpen /\ ~engineRunning)


\* C19: the storage-state file is written only in an ephemeral context
\* with a storage-state path configured and after a login that reached the
\* landing page; never in persistent-context mode, never after the wait for
\* the landing page timed out.
C19_StorageOnlyAfterSuccess ==
    storage_written =>
       /\ ~ss_cfg.use_persistent_context
       /\ ss_cfg.storage_state_path
       /\ feed_reached = "yes"

ScrapeEvents == SelectSeq(o_trace, LAMBDA e : e.ev = "scrape")

\* C20: the candidates taken into the second pass are o_results[1],
\* o_results[2], ... in that order, each once, and there are never more of
\* them than MAX_PROFILES.
C20_PrefixInOrder ==
    /\ \A i \in DOMAIN ScrapeEvents : ScrapeEvents[i].row = i
    /\ Len(ScrapeEvents) <= Len(o_results)
    /\ Len(ScrapeEvents) <= settings.max_profiles

\* both candidates of a two-candidate search have entered the second pass
C20_Witness ==
    /\ Len(o_results) = 2
    /\ Len(ScrapeEvents) = 2
    /\ o_pc = "done"


BsNamed == DOMAIN bs_last.updates \cap Range(bs_header)

\* C18: an update_row call changes only cells of row row_num under a header
\* column named in the updates, sets the cell under each supplied name the
\* header has, issues exactly one batched update for them, and issues none
\* and leaves the sheet as it was when no supplied name is in the header.
C18_UpdateRowFrame ==
    bs_last.called =>
       /\ \A k \in DOMAIN bs_rows : \A i \in DOMAIN bs_rows[k] :
             bs_rows[k][i] # bs_last.before[k][i] =>
                /\ k + 1 = bs_last.row_num
                /\ i \in DOMAIN bs_header
                /\ bs_header[i] \in BsNamed
       /\ \A n \in BsNamed :
             bs_rows[bs_last.row_num - 1][IndexOf(bs_header, n)] = bs_last.updates[n]
       /\ bs_last.issued = IF BsNamed = {} THEN 0 ELSE 1
       /\ BsNamed = {} => bs_rows = bs_last.before

\* a call that named a column the header lacks along with one it has, and
\* changed the row
C18_Witness ==
    /\ bs_last.called
    /\ "Bogus" \in DOMAIN bs_last.updates
    /\ BsNamed # {}
    /\ bs_rows # bs_last.before


\* C17: after the enhanced client has opened an existing worksheet, every
\* canonical column name is in the header, every header cell that was there
\* keeps its name and position, the grid has lost no column and holds the
\* whole header, and the data rows are as they were.
C17_AdditiveRepair ==
    eh_pc = "open" =>
       /\ \A c \in Range(COLUMNS) : c \in Range(esHeader)
       /\ Len(esHeader) >= Len(eh_before.header)
       /\ \A i \in DOMAIN eh_before.header : esHeader[i] = eh_before.header[i]
       /\ eh_cols >= eh_before.cols
       /\ eh_cols >= Len(esHeader)
       /\ esRows = eh_before.rows

\* a worksheet with data rows and a hand-made header that lacked canonical
\* columns and held a foreign one has been opened
C17_Witness ==
    /\ eh_pc = "open"
    /\ "legacy" \in Range(eh_before.header)
    /\ "connect_sent" \notin Range(eh_before.header)
    /\ eh_before.rows # <<>>


\* the number a string of capitals denotes as a bijective base-26 numeral
RECURSIVE Bijective26(_)
Bijective26(letters) ==
    IF letters = <<>> THEN 0
    ELSE 26 * Bijective26(SubSeq(letters, 1, Len(letters) - 1))
            + (ord(letters[Len(letters)]) - 64)

\* the conversions the test suite pins down
PinnedLetters ==
    [n \in {1, 26, 27, 52, 53, 702, 703} |->
        CASE n = 1   -> <<"A">>
          [] n = 26  -> <<"Z">>
          [] n = 27  -> <<"A", "A">>
          [] n = 52  -> <<"A", "Z">>
          [] n = 53  -> <<"B", "A">>
          [] n = 702 -> <<"Z", "Z">>
          [] n = 703 -> <<"A", "A", "A">>]

\* C13: the letters of column n, read as a bijective base-26 numeral, are n;
\* no other column number up to MaxCol has the same letters; the pinned
\* conversions come out as listed; and both clients give the same letters.
C13_LettersBijective ==
    cl_basic # <<>> =>
       /\ Bijective26(cl_basic) = cl_n
       /\ \A m \in 1..MaxCol : m # cl_n => _col_num_to_letter(m) # cl_basic
       /\ cl_n \in DOMAIN PinnedLetters => cl_basic = PinnedLetters[cl_n]
       /\ cl_enhanced = cl_basic

\* column 703, the first with three letters, has been converted
C13_Witness == cl_n = 703 /\ cl_basic = <<"A", "A", "A">> /\ cl_enhanced = cl_basic


\* every field of the profile is empty or absent
AllEmpty(profile) ==
    /\ profile.headline \in {NoText, <<>>}
    /\ profile.about \in {NoText, <<>>}
    /\ profile.skills = <<>>
    /\ profile.experiences = <<>>
    /\ profile.followers_count \in {NoCount, 0}

\* the returned score is within 0..100 and the three capped terms are
\* within 30, 20 and 20
ScoreInRange ==
    /\ sc_score >= 0
    /\ sc_score <= 100 * 100
    /\ FollowerTerm(sc_profile) <= 30 * Unit
    /\ skills_bonus(sc_profile) <= 20 * Unit
    /\ exp_bonus(sc_profile) <= 20 * Unit

C14_ScoreBoundedNonEmptyKeywords ==
    sc_score # NoScore =>
       /\ ScoreInRange
       /\ AllEmpty(sc_profile) =>
             sc_score = Min(100, 10 * Cardinality({k \in DOMAIN sc_keywords :
                                                      sc_keywords[k] = <<>>})) * 100

\* a profile whose terms add up to more than 100 has been scored, and an
\* all-empty profile could be scored against non-empty keywords
C14_Witness ==
    /\ sc_score = 100 * 100
    /\ RawScore(sc_profile, sc_keywords) > 100 * Unit
    /\ FollowerTerm(sc_profile) = 30 * Unit
    /\ skills_bonus(sc_profile) = 20 * Unit
    /\ exp_bonus(sc_profile) = 20 * Unit


Dots == <<".", ".", ".">>

\* C15 as stated: the InMail note has at most 300 characters; an output
\* that is longer than 300 characters once trimmed gives its first 297
\* characters followed by "..."; a shorter one is returned as it is but for
\* the trim.
C15_InmailTruncated ==
    ai_inmail # NoText =>
       /\ Len(ai_inmail) <= 300
       /\ Len(StripWs(ai_text)) > 300 =>
             ai_inmail = SubSeq(StripWs(ai_text), 1, 297) \o Dots
       /\ Len(StripWs(ai_text)) <= 300 => ai_inmail = StripWs(ai_text)

\* C15 amended: the same with every newline inside the trimmed output
\* replaced by a space before the length is taken.
C15_InmailTruncatedNewlinesReplaced ==
    ai_inmail # NoText =>
       LET message == ReplaceNewlines(StripWs(ai_text))
       IN  /\ Len(ai_inmail) <= 300
           /\ Len(message) > 300 =>
                 /\ Len(ai_inmail) = 300
                 /\ SubSeq(ai_inmail, 1, 297) = SubSeq(message, 1, 297)
                 /\ SubSeq(ai_inmail, 298, 300) = Dots
           /\ Len(message) <= 300 => ai_inmail = message

\* an output of more than 300 characters after the trim, with whitespace
\* around it and a newline inside, has been cut
C15_Witness ==
    /\ ai_inmail # NoText
    /\ Len(StripWs(ai_text)) = 301
    /\ Len(ai_text) > 301
    /\ "\n" \in Range(StripWs(ai_text))
    /\ Len(ai_inmail) = 300

\* C16: the connection note has at most 280 characters and no newline; it
\* is the trimmed output, each newline in it replaced by one space, up to
\* its 280th character.
C16_ConnectNoteCut ==
    ai_note # NoText =>
       LET trimmed == StripWs(ai_text)
       IN  /\ Len(ai_note) <= 280
           /\ "\n" \notin Range(ai_note)
           /\ Len(ai_note) = Min(280, Len(trimmed))
           /\ \A i \in DOMAIN ai_note :
                 ai_note[i] = IF trimmed[i] = "\n" THEN " " ELSE trimmed[i]

\* an output longer than 280 characters with two newlines in a row inside
\* has been made into a note
C16_Witness ==
    /\ ai_note # NoText
    /\ Len(StripWs(ai_text)) > 280
    /\ SubSeq(StripWs(ai_text), 3, 4) = <<"\n", "\n">>
    /\ Len(ai_note) = 280


C12_CompletedReachTable ==
    profiles_data \o profile_queue = ui_completed


\* the cell of a 16-cell row that holds the profile URL
UrlCell == IndexOf(TitleHeader, "Profile URL")

\* the data rows that hold url in their Profile URL cell
RowsOf(rs, url) == {k \in DOMAIN rs : UrlCell \in DOMAIN rs[k] /\ rs[k][UrlCell] = url}

\* one iteration of the first pass: a result whose URL has a row gets that
\* row's number, no row is appended and no cell but the row's "Last Updated"
\* changes; a result without a row gets exactly one new row, at the end.
FirstPassStep ==
    (o_pc = "pass1" /\ sheets /\ o_idx \in DOMAIN o_results /\ o_idx' = o_idx + 1) =>
       LET url == o_results[o_idx].profile_url
       IN  IF RowsOf(rows, url) # {}
           THEN /\ Len(rows') = Len(rows)
                /\ row_mapping'[url] - 1 \in RowsOf(rows, url)
                /\ \A k \in DOMAIN rows : \A i \in DOMAIN rows[k] :
                      rows'[k][i] # rows[k][i] =>
                         /\ k = row_mapping'[url] - 1
                         /\ i = IndexOf(header, "Last Updated")
           ELSE /\ Len(rows') = Len(rows) + 1
                /\ SubSeq(rows', 1, Len(rows)) = rows
                /\ rows'[Len(rows')][UrlCell] = url
                /\ row_mapping'[url] = Len(rows') + 1

\* the first pass is over: every result's URL is mapped to the sheet row
\* that holds it
FirstPassOver ==
    (o_pc = "pass1" /\ sheets /\ o_idx > Len(o_results)) =>
       \A i \in DOMAIN o_results :
          row_mapping[o_results[i].profile_url] - 1 \in RowsOf(rows, o_results[i].profile_url)

CellUnder(k, name) ==
    IF name \in Range(header) /\ IndexOf(header, name) \in DOMAIN rows[k]
    THEN rows[k][IndexOf(header, name)] ELSE ""

OrchColumnNames ==
    DOMAIN ProfileUpdates(ScrapedProfile("u1"))
        \cup {"Last Updated", "Summary", "Connection Note", "Connect Sent",
              "Connection Status"}

\* C28: the header of a worksheet the SheetsClient of the run has created
\* holds every column name run() updates by, so that update_row drops none
\* of them.
C28_CreatedHeaderHasUpdateColumns ==
    (sheets /\ sheetEnv.worksheet = "absent") =>
       /\ OrchColumnNames \subseteq Range(header)
       /\ \A n \in OrchColumnNames :
             UpdateBatch(header, 2, [c \in {n} |-> "value"]) # {}


\* C23: outside dry-run mode, a connect_with_note call whose page loaded
\* returns without raising, and returns true exactly when it clicked "Send"
\* or "Send without a note"; so with no Connect control, no note textarea,
\* no Send control or a failing click it returns false.
C23_TrueIffSubmitted ==
    (~cw_test_mode /\ cw_out # NoResult /\ cw_env.goto_ok) =>
       /\ cw_out.ret \in {"True", "False"}
       /\ (cw_out.ret = "True") <=> Submitted(cw_out)


\* the step that ends a page visit: the inner scroll loop is left and the
\* outer loop test comes next
PageVisitEnds == sp_pc = "round" /\ sp_pc' = "head"

\* what one step does to the page number (MaxPage stands for every later page)
PageStep ==
    IF PageVisitEnds
    THEN IF Len(search_results) = results_before_round
         THEN page_number' = IF page_number < MaxPage THEN page_number + 1
                             ELSE MaxPage
         ELSE page_number' = page_number
    ELSE page_number' = page_number

Pending == get_profiles_pending_connection(esHeader, esRows)
RowNumbers(records) == {records[i]["row_number"] : i \in DOMAIN records}
PendingRows == RowNumbers(Pending)

\* the cell of data row k under connect_sent
SentCell(k) == esRows[k][IndexOf(COLUMNS, "connect_sent")]

\* the sheet row numbers whose connect_sent cell is empty: by PendingExact,
\* the row numbers the query returns
EmptySentRows == {k + 1 : k \in {j \in DOMAIN esRows : SentCell(j) = ""}}

\* the query returns, in sheet order, exactly the data rows whose connect_sent
\* cell is empty, each as its header-keyed map with its sheet row number
PendingExact ==
    \A pending \in {Pending} :
    LET numbers == [i \in DOMAIN pending |-> pending[i]["row_number"]]
    IN  /\ Range(numbers) = EmptySentRows
        /\ \A i \in DOMAIN pending :
              /\ \A c \in DOMAIN COLUMNS :
                    pending[i][COLUMNS[c]] = esRows[numbers[i] - 1][c]
              /\ \A j \in DOMAIN pending : i < j => numbers[i] < numbers[j]

\* a step takes a row out of the result only by mark_connect_sent with that
\* row's number, that call always takes it out, a row that is out never comes
\* back, and a row add_profile appends is in
PendingStep ==
    /\ \A r \in 2..(Len(esRows) + 1) :
          /\ (r \in EmptySentRows /\ r \notin EmptySentRows') => mark_connect_sent(r)
          /\ (r \in EmptySentRows' /\ esCalls' = esCalls) => ~mark_connect_sent(r)
          /\ r \notin EmptySentRows => r \notin EmptySentRows'
    /\ Len(esRows') > Len(esRows) => (Len(esRows') + 1) \in EmptySentRows'

\* C25: get_profiles_pending_connection returns exactly the data rows whose
\* connect_sent cell is empty, each with its 1-based sheet row number (first
\* data row is 2); over add_profile and mark_connect_sent calls a row is
\* returned until mark_connect_sent is called with its number, never after.
C25_PendingUntilMarked == [][PendingStep]_vars /\ [](PendingExact)

\* three rows, the middle one marked: the query returns rows 2 and 4
C25_Witness ==
    /\ Len(esRows) = 3 /\ SentCell(2) = "Yes"
    /\ PendingRows = {2, 4} /\ Len(Pending) = 2


\* C26: once initialize(overrides) has returned true, run_automation builds
\* the browser session with every supplied override of a constructor argument
\* in effect; it never ends in its error path with the session never built.
C26_RunOpensSession ==
    bi_pc \in {"opened", "error"} =>
       /\ DOMAIN bi_li_args = LinkedInArgs
       /\ \A k \in DOMAIN bi_custom \cap LinkedInArgs : bi_li_args[k] = bi_custom[k]


\* the connect step of a candidate whose search-time status is not
\* "connected": afterwards the Connect Sent cell of the candidate's row is
\* "yes" only if the call clicked Send or Send without a note, and is "no"
\* otherwise
ConnectSentStep ==
    (o_pc = "connect" /\ o_pc' # "connect"
       /\ o_results[o_idx].connection_status # "connected" /\ sheets) =>
       LET k == RowNum(o_results[o_idx].profile_url) - 1
       IN  (k \in DOMAIN rows /\ "Connect Sent" \in Range(header)) =>
              CellUnder(k, "Connect Sent")' =
                 IF Submitted(o_cur'.connect) THEN "yes" ELSE "no"

\* C27: in the headless orchestrator the Connect Sent cell of a candidate
\* that was not "connected" at search time becomes "yes" only if a request
\* was actually submitted in this run, and "no" otherwise.
C27_SentMeansSubmitted == [][ConnectSentStep]_vars


\* C29: at most one GUI worker thread is alive at any time, whatever the
\* sequence of Start and Stop presses.
C29_OneWorkerThread ==
    Cardinality({t \in UiThreads : Alive(t)}) <= 1

\* the records of a log sequence that came through the root logger
LoggedRecords(log) == SelectSeq(log, LAMBDA m : m = ProcessingRecord)

\* C30: during GUI-started runs the LogHandler stays on the root logger, and
\* the records the workers log through it are, in emission order, exactly the
\* logger records displayed in the log view or waiting on the log queue.
C30_HandlerStaysAttached ==
    /\ "LogHandler" \in root_handlers
    /\ LoggedRecords(log_text \o log_queue) = ui_emitted

====
